---------------------------- MODULE Spec2Model ----------------------------
(***************************************************************************)
(* A model of the World Bank dashboard: the data pipeline of               *)
(* src/src/data_loader.py (load_and_transform_data,                        *)
(* standardize_country_codes, handle_missing_data, validate_data), the     *)
(* features of src/src/features.py, the forecasts of src/src/forecast.py   *)
(* and the cached load and the filter of src/src/utils.py as src/app.py    *)
(* uses them.  A table is a record of its columns and the                  *)
(* sequence of its rows; a null number (NaN) is the empty tuple and a      *)
(* number is the reduced fraction <<numerator, denominator>>.  Text of     *)
(* the CSV file is kept as strings, the empty field being read_csv's NaN.  *)
(***************************************************************************)
EXTENDS Integers, Sequences, FiniteSets, TLC

VARIABLES
    pc,             \* position of the operation under way
    err,            \* "none", or the exception the operation raised
    csv,            \* load_and_transform_data: the text of the file at file_path
    df,             \* ... the wide table (lines 178-184)
    df_long,        \* ... the melted, filtered table (lines 193-215)
    df_pivoted,     \* ... the pivoted table with numeric columns (lines 218-244)
    df_clean,       \* ... the table after standardization and missing-data handling
    result,         \* ... the table it returns
    handle_missing, \* ... its handle_missing argument
    std_in,         \* standardize_country_codes: its argument df
    std_out,        \* ... the df_clean it returns
    hm_in,          \* handle_missing_data: its argument df
    strategy,       \* ... its strategy argument
    hm_out,         \* ... the table it returns
    hm_twice,       \* ... the table a second application to hm_out returns
    vd_in,          \* validate_data: its argument df
    vd_out,         \* ... the pair (is_valid, validation_report) it returns
    ft_df,          \* a function of features.py: its argument df
    ft_arg,         \* ... its other argument (year, window, reference_year)
    ft_out,         \* ... what it returns
    fc_main,        \* forecast.py: the main_data given to prepare_forecast_data
    fc_call,        \* ... country, indicator, min_data_points and forecast_years
    fc_ts,          \* ... what prepare_forecast_data returned
    fc_out,         \* ... the table of points a forecast function returned
    files,          \* the three files of data/processed/features
    cache,          \* st.cache_data's entry for load_all_data
    data,           \* main: what load_all_data() returned to the last run
    shown,          \* main: what the last run rendered
    body_ran,       \* main: did the last run execute load_all_data's body?
    fd_df,          \* filter_data: its argument df
    fd_call,        \* ... its arguments countries and years
    fd_out,         \* ... the table it returns
    fd_twice,       \* ... the table a second application to fd_out returns
    core_df,        \* the table a caller holds and passes to a function
    core_writes,    \* ... the columns of it that were assigned in place
    core_fn         \* ... the function called last

vars == <<pc, err, csv, df, df_long, df_pivoted, df_clean, result, handle_missing,
          std_in, std_out, hm_in, strategy, hm_out, hm_twice,
          vd_in, vd_out, ft_df, ft_arg, ft_out,
          fc_main, fc_call, fc_ts, fc_out, files, cache, data, shown, body_ran,
          fd_df, fd_call, fd_out, fd_twice, core_df, core_writes, core_fn>>

\* The variables of data_loader.py's transform, standardization and
\* missing-data handling.
loaderVars ==
    <<csv, df, df_long, df_pivoted, df_clean, result, handle_missing,
      std_in, std_out, hm_in, strategy, hm_out, hm_twice>>

\* The variables of forecast.py, of the cached load of utils.py and app.py,
\* of filter_data and of the caller's table.
forecastVars == <<fc_main, fc_call, fc_ts, fc_out>>
appVars == <<files, cache, data, shown, body_ran>>
filterVars == <<fd_df, fd_call, fd_out, fd_twice>>
coreVars == <<core_df, core_writes, core_fn>>
dashboardVars == <<forecastVars, appVars, filterVars, coreVars>>

\* The variables of validate_data, of features.py and of the dashboard.
laterVars == <<vd_in, vd_out, ft_df, ft_arg, ft_out, dashboardVars>>

(***************************************************************************)
(* Bounds of the model.                                                    *)
(***************************************************************************)
MaxEntities == 2    \* (Country Name, Country Code) pairs of a wide table
MaxStdRows == 2     \* rows of a table given to standardize_country_codes
MaxRows == 3        \* rows of a table given to handle_missing_data
MaxVdRows == 2      \* rows of a table given to validate_data
MaxFtRows == 3      \* rows of a table given to the functions of features.py

(***************************************************************************)
(* Generic sequence helpers.                                               *)
(***************************************************************************)
Range(s) == {s[i] : i \in 1..Len(s)}

\* The sequence f with its elements evaluated.
AsSeq(f) == f \o <<>>

RECURSIVE Concat(_)
Concat(ss) == IF ss = <<>> THEN <<>> ELSE Head(ss) \o Concat(Tail(ss))

\* The distinct elements of s in order of first appearance.
RECURSIVE Distinct(_)
Distinct(s) ==
    IF s = <<>> THEN <<>>
    ELSE LET d == Distinct(SubSeq(s, 1, Len(s) - 1))
         IN IF s[Len(s)] \in Range(d) THEN d ELSE Append(d, s[Len(s)])

(***************************************************************************)
(* Numbers: NaN and reduced fractions.                                     *)
(***************************************************************************)
NaN == <<>>
IsNull(v) == v = NaN
Num(n) == <<n, 1>>

Abs(n) == IF n < 0 THEN -n ELSE n

RECURSIVE Gcd(_, _)
Gcd(a, b) == IF b = 0 THEN a ELSE Gcd(b, a % b)

Frac(n, d) ==
    LET g == Gcd(Abs(n), Abs(d))
        s == IF d < 0 THEN -1 ELSE 1
    IN <<(s * n) \div g, (s * d) \div g>>

\* a + (b - a) * k / m
Lerp(a, b, k, m) ==
    Frac(a[1] * b[2] * m + (b[1] * a[2] - a[1] * b[2]) * k, a[2] * b[2] * m)

(***************************************************************************)
(* Text: ordering, digits, the year of a column label, to_numeric.         *)
(***************************************************************************)
Ascii == " ,.0123456789ABCDEFGHIJKLMNOPQRSTUVWXYZ[]abcdefghijklmnopqrstuvwxyz"
Char(s, i) == SubSeq(s, i, i)
CharCodes ==
    [c \in {Char(Ascii, i) : i \in 1..Len(Ascii)} |->
        CHOOSE i \in 1..Len(Ascii) : Char(Ascii, i) = c]
CharCode(c) == CharCodes[c]

RECURSIVE StrLessFrom(_, _, _)
StrLessFrom(a, b, i) ==
    IF i > Len(b) THEN FALSE
    ELSE IF i > Len(a) THEN TRUE
    ELSE IF Char(a, i) = Char(b, i) THEN StrLessFrom(a, b, i + 1)
    ELSE CharCode(Char(a, i)) < CharCode(Char(b, i))

StrLess(a, b) == StrLessFrom(a, b, 1)

Digits == "0123456789"
DigitVals == [c \in {Char(Digits, i) : i \in 1..10} |-> CharCodes[c] - CharCodes["0"]]
IsDigit(c) == c \in DOMAIN DigitVals
DigitVal(c) == DigitVals[c]

Contains(s, sub) ==
    \E i \in 1..(Len(s) - Len(sub) + 1) : SubSeq(s, i, i + Len(sub) - 1) = sub

RECURSIVE ParseDigits(_, _)
ParseDigits(s, acc) ==
    IF s = "" THEN acc
    ELSE ParseDigits(SubSeq(s, 2, Len(s)), 10 * acc + DigitVal(Char(s, 1)))

AllDigits(s) == \A i \in 1..Len(s) : IsDigit(Char(s, i))

\* Sort keys are <<text, text, integer>>, compared lexicographically.
\* Is the sort key a before the sort key b?
KeyLess(a, b) ==
    \/ StrLess(a[1], b[1])
    \/ a[1] = b[1] /\ StrLess(a[2], b[2])
    \/ a[1] = b[1] /\ a[2] = b[2] /\ a[3] < b[3]

\* Sorting a sequence of <<key, item>> pairs by key.  The sort is stable: pairs
\* of equal keys keep their order (np.lexsort, which sort_values uses for
\* several columns, is stable).
RECURSIVE InsertSorted(_, _)
InsertSorted(x, s) ==
    IF s = <<>> THEN <<x>>
    ELSE IF ~KeyLess(Head(s)[1], x[1]) THEN <<x>> \o s
    ELSE <<Head(s)>> \o InsertSorted(x, Tail(s))

RECURSIVE StableSort(_)
StableSort(s) ==
    IF s = <<>> THEN <<>>
    ELSE LET n == Len(s)
             rest == StableSort(SubSeq(s, 2, n))
         IN InsertSorted(s[1], rest)

(***************************************************************************)
(* load_and_transform_data, lines 178-184: the wide table.                 *)
(* A wide table is [idcols, cols, rows]: the id columns it has, the labels *)
(* of its other columns in order, and its rows [name, code, series, cells] *)
(* with one cell per label.  The empty text is the null of read_csv.       *)
(***************************************************************************)
IdColumns == {"Country Name", "Country Code", "Series Code"}

IdCell(r, c) ==
    IF c = "Country Name" THEN r.name
    ELSE IF c = "Country Code" THEN r.code ELSE r.series

\* df.dropna(how='all'): the rows with some non-null cell.
DropEmptyRows(t) ==
    [t EXCEPT !.rows = SelectSeq(t.rows, LAMBDA r :
        \/ \E c \in t.idcols : IdCell(r, c) # ""
        \/ \E i \in 1..Len(t.cols) : r.cells[i] # "")]

\* The positions of s whose element satisfies keep, in order.
RECURSIVE KeptPositions(_, _, _)
KeptPositions(n, i, keep) ==
    IF i > n THEN <<>>
    ELSE (IF i \in keep THEN <<i>> ELSE <<>>) \o KeptPositions(n, i + 1, keep)

\* df.dropna(axis=1, how='all'): the columns with some non-null cell.
DropEmptyColumns(t) ==
    LET live == {i \in 1..Len(t.cols) : \E j \in 1..Len(t.rows) : t.rows[j].cells[i] # ""}
        kept == KeptPositions(Len(t.cols), 1, live)
    IN [idcols |-> {c \in t.idcols : \E j \in 1..Len(t.rows) : IdCell(t.rows[j], c) # ""},
        cols |-> AsSeq([k \in 1..Len(kept) |-> t.cols[kept[k]]]),
        rows |-> AsSeq([j \in 1..Len(t.rows) |->
                    [t.rows[j] EXCEPT !.cells = AsSeq([k \in 1..Len(kept) |-> t.rows[j].cells[kept[k]]])]])]

\* df[df['Country Name'].notna() & (df['Country Name'] != '')]
DropFooterRows(t) == [t EXCEPT !.rows = SelectSeq(t.rows, LAMBDA r : r.name # "")]

(***************************************************************************)
(* Lines 186-215: melt, the year of each label, the recognized series.     *)
(***************************************************************************)
IsYearColumn(col) == \E x \in {"YR", "19", "20"} : Contains(col, x)

\* str.extract(r'(\d{4})'): the first four consecutive digits, or "" (NaN).
ExtractYear(label) ==
    LET hits == {i \in 1..(Len(label) - 3) : AllDigits(SubSeq(label, i, i + 3))}
    IN IF hits = {} THEN ""
       ELSE LET i == CHOOSE h \in hits : \A g \in hits : h <= g
            IN SubSeq(label, i, i + 3)

indicator_mapping ==
    [s \in {"NY.ADJ.NNTY.PC.KD.ZG", "SP.POP.TOTL", "SP.DYN.LE00.IN", "NY.GDP.PCAP.CD"} |->
        IF s = "NY.ADJ.NNTY.PC.KD.ZG" THEN "ann_income_pc_growth_pct"
        ELSE IF s = "SP.POP.TOTL" THEN "population_total"
        ELSE IF s = "SP.DYN.LE00.IN" THEN "life_expectancy_years"
        ELSE "gdp_pc_usd"]

\* The labels of the year columns, in column order (line 187).
year_columns(t) ==
    LET ycols == KeptPositions(Len(t.cols), 1, {i \in 1..Len(t.cols) : IsYearColumn(t.cols[i])})
    IN AsSeq([k \in 1..Len(ycols) |-> [at |-> ycols[k], label |-> t.cols[ycols[k]],
                                 year |-> ExtractYear(t.cols[ycols[k]])]])

\* df.melt(...) and line 201: one row per year column and wide row, column
\* by column, with the year text of its label.
Melt(t) ==
    LET ycols == year_columns(t)
    IN Concat(AsSeq([k \in 1..Len(ycols) |->
                 AsSeq([j \in 1..Len(t.rows) |->
                    [name |-> t.rows[j].name, code |-> t.rows[j].code,
                     series |-> t.rows[j].series,
                     year_str |-> ycols[k].label,
                     year |-> ycols[k].year,
                     value |-> t.rows[j].cells[ycols[k].at]]])]))

\* Does astype(int) of line 201 raise?  It does on a row without a year.
MeltRaises(t) ==
    LET melted == Melt(t)
    IN \E i \in 1..Len(melted) : melted[i].year = ""

\* Lines 201-215 on the melted rows: the year as an integer, then the filter.
LongRows(melted) ==
    LET withYear == AsSeq([i \in 1..Len(melted) |->
                        [name |-> melted[i].name, code |-> melted[i].code,
                         series |-> melted[i].series,
                         year |-> ParseDigits(melted[i].year, 0),
                         value |-> melted[i].value]])
    IN SelectSeq(withYear, LAMBDA r : r.series \in DOMAIN indicator_mapping)

(***************************************************************************)
(* Lines 217-244: pivot_table, the renames, to_numeric.                    *)
(* A long table is [columns, rows]: the indicator columns it has and its   *)
(* rows [id, country, iso_code, year, four indicator fields]; id is the    *)
(* index label of the row.  A field of a column the table lacks is NaN.    *)
(***************************************************************************)
numeric_columns ==
    <<"ann_income_pc_growth_pct", "population_total", "life_expectancy_years", "gdp_pc_usd">>

\* An iso_code cell: a text, Python's None, or the float NaN.
Str(s) == [k |-> "str", s |-> s]
PyNone == [k |-> "None", s |-> ""]
NaNCode == [k |-> "NaN", s |-> ""]

\* pd.to_numeric(errors='coerce') of one cell.
to_numeric(text) ==
    IF text # "" /\ AllDigits(text) THEN Num(ParseDigits(text, 0)) ELSE NaN

\* groupby(...).agg('first') of one group: its first non-null value, or "".
RECURSIVE First(_)
First(values) ==
    IF values = <<>> THEN ""
    ELSE IF Head(values) # "" THEN Head(values) ELSE First(Tail(values))

\* A pivot that loses the year of a cell: the first value of the country and
\* series, whatever its year.
GroupValue_AnyYear(long, name, code, year, series) ==
    LET grp == SelectSeq(long, LAMBDA r :
                   r.name = name /\ r.code = code /\ r.series = series)
    IN First(AsSeq([i \in 1..Len(grp) |-> grp[i].value]))

GroupValue(long, name, code, year, series) ==
    LET grp == SelectSeq(long, LAMBDA r :
                   r.name = name /\ r.code = code /\ r.year = year /\ r.series = series)
    IN First(AsSeq([i \in 1..Len(grp) |-> grp[i].value]))

\* pivot_table(index=[name, code, year], columns=series, aggfunc='first'),
\* reset_index, the two renames and to_numeric.  groupby leaves out the rows
\* with a null key, pivot_table the groups whose value is null: a group stays
\* when one of its rows has a value.
PivotTable(long) ==
    LET keyed == SelectSeq(long, LAMBDA r : r.code # "" /\ r.value # "")
        index == Distinct(AsSeq([i \in 1..Len(keyed) |->
                              <<<<keyed[i].name, keyed[i].code, keyed[i].year>>, 0>>]))
        sorted == StableSort(index)
    IN [columns |-> {indicator_mapping[keyed[i].series] : i \in 1..Len(keyed)},
        rows |-> AsSeq([i \in 1..Len(sorted) |->
            LET k == sorted[i][1]
                cell(s) == to_numeric(GroupValue(long, k[1], k[2], k[3], s))
            IN [id |-> i - 1, country |-> k[1], iso_code |-> Str(k[2]), year |-> k[3],
                ann_income_pc_growth_pct |-> cell("NY.ADJ.NNTY.PC.KD.ZG"),
                population_total |-> cell("SP.POP.TOTL"),
                life_expectancy_years |-> cell("SP.DYN.LE00.IN"),
                gdp_pc_usd |-> cell("NY.GDP.PCAP.CD")]])]

(***************************************************************************)
(* standardize_country_codes, lines 11-73.                                 *)
(***************************************************************************)
special_mapping ==
    [n \in {"European Union", "Korea, Rep."} |->
        IF n = "European Union" THEN "EUU" ELSE "KOR"]

\* The part of the pycountry registry the model's names and codes meet.
countries ==
    {[alpha_3 |-> "FRA", name |-> "France"],
     [alpha_3 |-> "RUS", name |-> "Russian Federation"],
     [alpha_3 |-> "KOR", name |-> "Korea, Republic of"]}

\* pycountry.countries.search_fuzzy: the candidates, best first: an exact
\* name before a name that contains the query, then by name.  No candidate
\* is a LookupError.
search_fuzzy(query) ==
    LET hits == {c \in countries : Contains(c.name, query)}
        pairs == CHOOSE q \in [1..Cardinality(hits) -> hits] :
                    /\ \A i, j \in DOMAIN q : i # j => q[i] # q[j]
                    /\ \A i, j \in DOMAIN q : i < j =>
                          \/ q[i].name = query
                          \/ q[j].name # query /\ StrLess(q[i].name, q[j].name)
    IN pairs

\* Python's truth value of a cell: None and "" are false, the float NaN is true.
Truthy(code) == IF code.k = "str" THEN code.s # "" ELSE code.k = "NaN"

Raised(e) == [k |-> "raise", s |-> e]

\* A resolution that looks at the existing code before the override table.
get_iso3_code_CodeFirst(country_name, current_code) ==
    IF Truthy(current_code) /\ current_code.k # "str"
    THEN Raised("TypeError")
    ELSE IF /\ Truthy(current_code) /\ Len(current_code.s) = 3
            /\ \E c \in countries : c.alpha_3 = current_code.s
    THEN current_code
    ELSE IF country_name \in DOMAIN special_mapping
    THEN Str(special_mapping[country_name])
    ELSE IF \E c \in countries : c.name = country_name
    THEN Str((CHOOSE c \in countries : c.name = country_name).alpha_3)
    ELSE IF search_fuzzy(country_name) # <<>>
    THEN Str(search_fuzzy(country_name)[1].alpha_3)
    ELSE IF Truthy(current_code) /\ Len(current_code.s) = 3
    THEN current_code
    ELSE PyNone

\* get_iso3_code: the code it returns, or Raised(exception).  len() of a
\* float is a TypeError, and line 35 is outside every try block; line 60
\* is reached only with a code line 35 has already accepted.
get_iso3_code(country_name, current_code) ==
    IF country_name \in DOMAIN special_mapping
    THEN Str(special_mapping[country_name])
    ELSE IF Truthy(current_code) /\ current_code.k # "str"
    THEN Raised("TypeError")
    ELSE IF /\ Truthy(current_code) /\ Len(current_code.s) = 3
            /\ \E c \in countries : c.alpha_3 = current_code.s
    THEN current_code
    ELSE IF \E c \in countries : c.name = country_name
    THEN Str((CHOOSE c \in countries : c.name = country_name).alpha_3)
    ELSE IF search_fuzzy(country_name) # <<>>
    THEN Str(search_fuzzy(country_name)[1].alpha_3)
    ELSE IF Truthy(current_code) /\ Len(current_code.s) = 3
    THEN current_code
    ELSE PyNone

\* The table standardize_country_codes returns (lines 21, 63-66, 73).
StandardizeRows(t) ==
    [t EXCEPT !.rows = AsSeq([i \in 1..Len(t.rows) |->
        [t.rows[i] EXCEPT !.iso_code = get_iso3_code(t.rows[i].country, t.rows[i].iso_code)]])]

\* Does standardize_country_codes raise on t?
StandardizeRaises(t) ==
    \E i \in 1..Len(t.rows) :
        get_iso3_code(t.rows[i].country, t.rows[i].iso_code).k = "raise"

(***************************************************************************)
(* handle_missing_data, lines 75-114.                                      *)
(***************************************************************************)
time_series_columns == <<"ann_income_pc_growth_pct", "gdp_pc_usd", "life_expectancy_years">>
demographic_columns == <<"population_total">>

\* The last non-null position before i, and the first after it; 0 if none.
PrevValid(x, i) ==
    LET ps == {p \in 1..(i - 1) : ~IsNull(x[p])}
    IN IF ps = {} THEN 0 ELSE CHOOSE p \in ps : \A q \in ps : q <= p

NextValid(x, i) ==
    LET ps == {p \in (i + 1)..Len(x) : ~IsNull(x[p])}
    IN IF ps = {} THEN 0 ELSE CHOOSE p \in ps : \A q \in ps : p <= q

\* ffill(limit=1): only the gap right after a value is filled.
ffill_limit1(x) ==
    AsSeq([i \in 1..Len(x) |->
        IF IsNull(x[i]) /\ i > 1 /\ ~IsNull(x[i - 1]) THEN x[i - 1] ELSE x[i]])

ffill(x) ==
    AsSeq([i \in 1..Len(x) |->
        IF ~IsNull(x[i]) \/ PrevValid(x, i) = 0 THEN x[i] ELSE x[PrevValid(x, i)]])

\* No back-fill: x.ffill() alone.
bfill_none(x) == x

bfill(x) ==
    AsSeq([i \in 1..Len(x) |->
        IF ~IsNull(x[i]) \/ NextValid(x, i) = 0 THEN x[i] ELSE x[NextValid(x, i)]])

\* Series.interpolate(): linear between the neighbours by position, the last
\* value after the last non-null one; before the first non-null one the gap
\* stays, unless limit_direction='both', which puts the first value there.
interpolate(x, both) ==
    AsSeq([i \in 1..Len(x) |->
        LET p == PrevValid(x, i)
            q == NextValid(x, i)
        IN IF ~IsNull(x[i]) THEN x[i]
           ELSE IF p # 0 /\ q # 0 THEN Lerp(x[p], x[q], i - p, q - p)
           ELSE IF p # 0 THEN x[p]
           ELSE IF q # 0 /\ both THEN x[q]
           ELSE NaN])

\* df.sort_values(['country', 'year'])
SortByCountryYear(rows) ==
    LET keyed == AsSeq([i \in 1..Len(rows) |-> <<<<rows[i].country, "", rows[i].year>>, rows[i]>>])
        sorted == StableSort(keyed)
    IN AsSeq([i \in 1..Len(sorted) |-> sorted[i][2]])

\* The three functions handle_missing_data hands to transform (lines 101, 105
\* and 110), by name.
ApplyFill(fill, x) ==
    IF fill = "ffill().bfill()" THEN bfill(ffill(x))
    ELSE IF fill = "interpolate()" THEN interpolate(x, FALSE)
    ELSE interpolate(x, TRUE)

\* A transform of the whole column, without the groupby.
GroupOf_WholeTable(rows, i) == KeptPositions(Len(rows), 1, 1..Len(rows))

\* The positions of the rows of the group of row i: groupby('country').
GroupOf(rows, i) ==
    KeptPositions(Len(rows), 1, {j \in 1..Len(rows) : rows[j].country = rows[i].country})

\* df[col] = grouped[col].transform(fill): fill on the column of each
\* country, in the order of the rows.
GroupTransform(rows, col, fill) ==
    AsSeq([i \in 1..Len(rows) |->
        LET members == GroupOf(rows, i)
            filled == ApplyFill(fill, AsSeq([k \in 1..Len(members) |-> rows[members[k]][col]]))
            at == CHOOSE k \in 1..Len(members) : members[k] = i
        IN [rows[i] EXCEPT ![col] = filled[at]]])

\* for col in cols: df[col] = grouped[col].transform(fill)
RECURSIVE TransformColumns(_, _, _)
TransformColumns(rows, cols, fill) ==
    IF cols = <<>> THEN rows
    ELSE TransformColumns(GroupTransform(rows, Head(cols), fill), Tail(cols), fill)

\* Does handle_missing_data raise on t?  grouped[col] of a column the table
\* lacks is a KeyError.
HandleMissingRaises(t, strat) ==
    /\ strat \in {"forward_fill", "interpolate"}
    /\ ~(Range(numeric_columns) \subseteq t.columns)

\* 'else:' for the last branch: every other strategy interpolates.
handle_missing_data_else(t, strat) ==
    LET sorted == SortByCountryYear(t.rows)
    IN [t EXCEPT !.rows =
        IF strat = "forward_fill"
        THEN TransformColumns(
                 TransformColumns(sorted, time_series_columns, "ffill().bfill()"),
                 demographic_columns, "interpolate()")
        ELSE TransformColumns(sorted, time_series_columns \o demographic_columns,
                              "interpolate(limit_direction='both')")]

\* The table handle_missing_data returns.
handle_missing_data(t, strat) ==
    LET sorted == SortByCountryYear(t.rows)
    IN [t EXCEPT !.rows =
        IF strat = "forward_fill"
        THEN TransformColumns(
                 TransformColumns(sorted, time_series_columns, "ffill().bfill()"),
                 demographic_columns, "interpolate()")
        ELSE IF strat = "interpolate"
        THEN TransformColumns(sorted, time_series_columns \o demographic_columns,
                              "interpolate(limit_direction='both')")
        ELSE sorted]

(***************************************************************************)
(* load_and_transform_data, lines 253-262.                                 *)
(***************************************************************************)
\* how='any': a row with some null indicator.
AllNull_any(r) == \E c \in Range(numeric_columns) : IsNull(r[c])

AllNull(r) == \A c \in Range(numeric_columns) : IsNull(r[c])

\* A dropna that passes over the columns the table lacks.
DropRaises_lenient(t) == FALSE

\* Does line 254 raise?  dropna(subset=...) of a column the table lacks is a
\* KeyError.
DropRaises(t) == ~(Range(numeric_columns) \subseteq t.columns)

\* dropna(subset=numeric_columns, how='all'), sort_values, reset_index.
DropSortReset(t) ==
    LET kept == SortByCountryYear(SelectSeq(t.rows, LAMBDA r : ~AllNull(r)))
    IN [t EXCEPT !.rows = AsSeq([i \in 1..Len(kept) |-> [kept[i] EXCEPT !.id = i - 1]])]

(***************************************************************************)
(* The files load_and_transform_data is run on.                            *)
(***************************************************************************)
RECURSIVE ToText(_)
ToText(n) ==
    IF n < 10 THEN Char(Digits, n + 1)
    ELSE ToText(n \div 10) \o Char(Digits, (n % 10) + 1)

\* The (Country Name, Country Code) pairs of the files: one name under two
\* codes, a code the registry lacks, a row without a name, one without a code.
Entities ==
    {[name |-> "France", code |-> "FRA"], [name |-> "France", code |-> "FXX"],
     [name |-> "World", code |-> "WLD"], [name |-> "", code |-> ""],
     [name |-> "Russia", code |-> ""]}

EntityLists == UNION {[1..n -> Entities] : n \in 1..MaxEntities}

AllFour == <<"NY.GDP.PCAP.CD", "SP.POP.TOTL", "SP.DYN.LE00.IN", "NY.ADJ.NNTY.PC.KD.ZG">>

\* The Series Code values of the rows of one country, in file order.
SeriesLists ==
    {AllFour,
     <<"NY.ADJ.NNTY.PC.KD.ZG", "SP.URB.TOTL", "SP.DYN.LE00.IN", "SP.POP.TOTL", "NY.GDP.PCAP.CD">>,
     <<"NY.GDP.PCAP.CD", "SP.DYN.LE00.IN", "NY.ADJ.NNTY.PC.KD.ZG">>,
     <<"SP.URB.TOTL">>,
     <<"">>,
     <<>>}

\* The labels of the columns after the id columns.
ColumnLists ==
    {<<"2015 [YR2015]", "2016 [YR2016]", "2017 [YR2017]">>,
     <<"2016 [YR2016]", "2015 [YR2015]">>,
     <<"2015", "2015 [YR2015]">>,
     <<"2015 [YR2015]", "Notes">>,
     <<"2015 [YR2015]", "Unnamed 20">>,
     <<"Notes">>}

\* The number in the cell of entity e, series s and column c of a file: each
\* cell of a file holds a different number.
CellNumber(e, s, c) == 100 * e + 10 * s + c

\* The file with these countries, series and columns; nulls[s] is the set of
\* columns in which series s of the first country has no number but nulltext.
MakeCsv(entities, series, cols, nulls, nulltext) ==
    [idcols |-> IdColumns,
     cols |-> cols,
     rows |-> Concat(AsSeq([e \in 1..Len(entities) |->
                AsSeq([s \in 1..Len(series) |->
                    [name |-> entities[e].name, code |-> entities[e].code,
                     series |-> series[s],
                     cells |-> AsSeq([c \in 1..Len(cols) |->
                        IF e = 1 /\ c \in nulls[s] THEN nulltext
                        ELSE ToText(CellNumber(e, s, c))])]])]))]

NoNulls == AsSeq([s \in 1..5 |-> {}])

\* Files of every shape, every cell a number.
ShapeFiles ==
    {MakeCsv(es, ss, cs, NoNulls, "") :
        es \in EntityLists, ss \in SeriesLists, cs \in ColumnLists}

\* Files of all four series over three years, with gaps in the first country:
\* each series lacks no year, one year or all of them, the gap being an empty
\* field or the ".." of the World Bank.
NullPatterns == {{}, {1}, {2}, {3}, {1, 2, 3}}

GapFiles ==
    {MakeCsv(es, AllFour, <<"2015 [YR2015]", "2016 [YR2016]", "2017 [YR2017]">>,
             AsSeq([s \in 1..5 |-> IF s = 5 THEN {} ELSE ns[s]]), nt) :
        es \in {<<[name |-> "France", code |-> "FRA"]>>,
                <<[name |-> "France", code |-> "FRA"], [name |-> "World", code |-> "WLD"]>>,
                <<[name |-> "France", code |-> "FRA"], [name |-> "France", code |-> "FXX"]>>},
        ns \in [1..4 -> NullPatterns],
        nt \in {"", ".."}}

EmptyWide == [idcols |-> {}, cols |-> <<>>, rows |-> <<>>]
EmptyLong == [columns |-> {}, rows |-> <<>>]

(***************************************************************************)
(* load_and_transform_data as a state machine: one action per stage.       *)
(***************************************************************************)
LoadIdle ==
    /\ csv = EmptyWide /\ df = EmptyWide
    /\ df_long = [idcols |-> {}, rows |-> <<>>]
    /\ df_pivoted = EmptyLong /\ df_clean = EmptyLong /\ result = EmptyLong
    /\ handle_missing = FALSE

StdIdle == std_in = EmptyLong /\ std_out = EmptyLong

MissingIdle ==
    /\ hm_in = EmptyLong /\ strategy = "leave_gaps"
    /\ hm_out = EmptyLong /\ hm_twice = EmptyLong

ValidateIdle == vd_in = EmptyLong /\ vd_out = [is_valid |-> TRUE, report |-> <<>>]

FeaturesIdle == ft_df = EmptyLong /\ ft_arg = 0 /\ ft_out = EmptyLong

FileNames == {"main_data", "latest_snapshot", "world_aggregates"}

ForecastIdle ==
    /\ fc_main = EmptyLong
    /\ fc_call = [country |-> "", indicator |-> "", min_data_points |-> 0,
                  forecast_years |-> 0]
    /\ fc_ts = [none |-> TRUE, rows |-> <<>>]
    /\ fc_out = <<>>

AppIdle ==
    /\ files = [f \in FileNames |-> "absent"]
    /\ cache = <<>>
    /\ data = <<>>
    /\ shown = "nothing"
    /\ body_ran = FALSE

FilterIdle ==
    /\ fd_df = EmptyLong
    /\ fd_call = [countries |-> <<>>, years |-> <<>>]
    /\ fd_out = EmptyLong
    /\ fd_twice = EmptyLong

CoreIdle == core_df = EmptyLong /\ core_writes = {} /\ core_fn = ""

DashboardIdle == ForecastIdle /\ AppIdle /\ FilterIdle /\ CoreIdle

LaterIdle == ValidateIdle /\ FeaturesIdle /\ DashboardIdle

Init ==
    /\ pc = "read"
    /\ err = "none"
    /\ csv \in ShapeFiles \cup GapFiles
    /\ handle_missing \in BOOLEAN
    /\ df = EmptyWide
    /\ df_long = [idcols |-> {}, rows |-> <<>>]
    /\ df_pivoted = EmptyLong
    /\ df_clean = EmptyLong
    /\ result = EmptyLong
    /\ StdIdle /\ MissingIdle /\ LaterIdle

Fail(e) == pc' = "failed" /\ err' = e

\* Lines 178-184.  A table that lost its 'Country Name' column is a KeyError.
ReadCsv ==
    /\ pc = "read"
    /\ LET t == DropEmptyColumns(DropEmptyRows(csv))
       IN \/ /\ "Country Name" \notin t.idcols
             /\ Fail("KeyError")
             /\ UNCHANGED df
          \/ /\ "Country Name" \in t.idcols
             /\ df' = DropFooterRows(t)
             /\ pc' = "melt"
             /\ UNCHANGED err
    /\ UNCHANGED <<csv, df_long, df_pivoted, df_clean, result, handle_missing,
                   std_in, std_out, hm_in, strategy, hm_out, hm_twice>>
    /\ UNCHANGED laterVars

\* Lines 186-215.  astype(int) of a label without a year is a ValueError; a
\* table that lost its 'Series Code' column is a KeyError.
MeltAndFilter ==
    /\ pc = "melt"
    /\ \/ /\ MeltRaises(df) = TRUE
          /\ Fail("ValueError")
          /\ UNCHANGED df_long
       \/ /\ ~MeltRaises(df)
          /\ "Series Code" \notin df.idcols
          /\ Fail("KeyError")
          /\ UNCHANGED df_long
       \/ /\ ~MeltRaises(df)
          /\ "Series Code" \in df.idcols
          /\ df_long' = [idcols |-> df.idcols, rows |-> LongRows(Melt(df))]
          /\ pc' = "pivot"
          /\ UNCHANGED err
    /\ UNCHANGED <<csv, df, df_pivoted, df_clean, result, handle_missing,
                   std_in, std_out, hm_in, strategy, hm_out, hm_twice>>
    /\ UNCHANGED laterVars

\* Lines 217-244.  A table that lost its 'Country Code' column is a KeyError.
Pivot ==
    /\ pc = "pivot"
    /\ \/ /\ "Country Code" \notin df_long.idcols
          /\ Fail("KeyError")
          /\ UNCHANGED df_pivoted
       \/ /\ "Country Code" \in df_long.idcols
          /\ df_pivoted' = PivotTable(df_long.rows)
          /\ pc' = "standardize"
          /\ UNCHANGED err
    /\ UNCHANGED <<csv, df, df_long, df_clean, result, handle_missing,
                   std_in, std_out, hm_in, strategy, hm_out, hm_twice>>
    /\ UNCHANGED laterVars

\* Line 247.  On a table without rows DataFrame.apply returns a table, and
\* the assignment of line 63 raises a ValueError or not, by the pandas used.
Standardize ==
    /\ pc = "standardize"
    /\ \/ /\ (df_pivoted.rows = <<>> \/ StandardizeRaises(df_pivoted)) = TRUE
          /\ Fail(IF df_pivoted.rows = <<>> THEN "ValueError" ELSE "TypeError")
          /\ UNCHANGED df_clean
       \/ /\ ~StandardizeRaises(df_pivoted)
          /\ df_clean' = StandardizeRows(df_pivoted)
          /\ pc' = "missing"
          /\ UNCHANGED err
    /\ UNCHANGED <<csv, df, df_long, df_pivoted, result, handle_missing,
                   std_in, std_out, hm_in, strategy, hm_out, hm_twice>>
    /\ UNCHANGED laterVars

\* Lines 249-251.
HandleMissing ==
    /\ pc = "missing"
    /\ \/ /\ handle_missing /\ HandleMissingRaises(df_clean, "forward_fill") = TRUE
          /\ Fail("KeyError")
          /\ UNCHANGED df_clean
       \/ /\ handle_missing /\ ~HandleMissingRaises(df_clean, "forward_fill")
          /\ df_clean' = handle_missing_data(df_clean, "forward_fill")
          /\ pc' = "drop"
          /\ UNCHANGED err
       \/ /\ ~handle_missing
          /\ pc' = "drop"
          /\ UNCHANGED <<df_clean, err>>
    /\ UNCHANGED <<csv, df, df_long, df_pivoted, result, handle_missing,
                   std_in, std_out, hm_in, strategy, hm_out, hm_twice>>
    /\ UNCHANGED laterVars

\* Lines 253-262.
DropAndReturn ==
    /\ pc = "drop"
    /\ \/ /\ DropRaises(df_clean)
          /\ Fail("KeyError")
          /\ UNCHANGED result
       \/ /\ ~DropRaises(df_clean)
          /\ result' = DropSortReset(df_clean)
          /\ pc' = "done"
          /\ UNCHANGED err
    /\ UNCHANGED <<csv, df, df_long, df_pivoted, df_clean, handle_missing,
                   std_in, std_out, hm_in, strategy, hm_out, hm_twice>>
    /\ UNCHANGED laterVars

Next ==
    \/ ReadCsv
    \/ MeltAndFilter
    \/ Pivot
    \/ Standardize
    \/ HandleMissing
    \/ DropAndReturn

Spec == Init /\ [][Next]_vars

(***************************************************************************)
(* standardize_country_codes called on a table of records.                 *)
(***************************************************************************)
AllColumns == Range(numeric_columns)

StdNames == {"European Union", "Korea, Rep.", "France", "Russia", "World"}
StdCodes == {Str("FRA"), Str("KOR"), Str("XKX"), Str("FR"), Str(""), PyNone, NaNCode}

\* The record at position i of a table: the indicators differ from record to
\* record and the second record has gaps.
StdRecord(i, country, code) ==
    [id |-> i - 1, country |-> country, iso_code |-> code, year |-> 2014 + i,
     ann_income_pc_growth_pct |-> IF i = 2 THEN NaN ELSE Num(i),
     population_total |-> Num(1000 * i),
     life_expectancy_years |-> IF i = 2 THEN NaN ELSE Num(70 + i),
     gdp_pc_usd |-> Num(100 * i)]

StdTables(max) ==
    {[columns |-> AllColumns,
      rows |-> AsSeq([i \in 1..n |-> StdRecord(i, names[i], codes[i])])] :
        n \in 1..max, names \in [1..max -> StdNames],
        codes \in [1..max -> StdCodes]}

InitStd ==
    /\ pc = "std"
    /\ err = "none"
    /\ std_in \in StdTables(MaxStdRows)
    /\ std_out = EmptyLong
    /\ LoadIdle /\ MissingIdle /\ LaterIdle

StandardizeCall ==
    /\ pc = "std"
    /\ \/ /\ StandardizeRaises(std_in) = TRUE
          /\ pc' = "std_failed"
          /\ err' = "TypeError"
          /\ UNCHANGED std_out
       \/ /\ ~StandardizeRaises(std_in)
          /\ std_out' = StandardizeRows(std_in)
          /\ pc' = "std_done"
          /\ UNCHANGED err
    /\ UNCHANGED <<csv, df, df_long, df_pivoted, df_clean, result, handle_missing,
                   std_in, hm_in, strategy, hm_out, hm_twice>>
    /\ UNCHANGED laterVars

NextStd == StandardizeCall

SpecStd == InitStd /\ [][NextStd]_vars

(***************************************************************************)
(* handle_missing_data called on a table of records, and once more on the  *)
(* table it returned.                                                      *)
(***************************************************************************)
HmCountries == {"France", "World"}
HmYears == {2015, 2016, 2017}
Strategies == {"forward_fill", "interpolate", "leave_gaps"}

\* The record at position i: gap says which of its cells are null (the
\* income growth is null in the records the other three are not).  Every
\* cell that holds a number holds a different one.
HmRecord(i, country, year, gap) ==
    [id |-> i - 1, country |-> country, iso_code |-> PyNone, year |-> year,
     ann_income_pc_growth_pct |-> IF gap THEN Num(10 * i + 1) ELSE NaN,
     population_total |-> IF gap THEN NaN ELSE Num(10 * i + 2),
     life_expectancy_years |-> IF gap THEN NaN ELSE Num(10 * i + 3),
     gdp_pc_usd |-> IF gap THEN NaN ELSE Num(10 * i + 4)]

HmRecordChoices == HmCountries \X HmYears \X BOOLEAN

HmTables(max) ==
    {[columns |-> AllColumns,
      rows |-> AsSeq([i \in 1..n |-> HmRecord(i, c[i][1], c[i][2], c[i][3])])] :
        n \in 1..max, c \in [1..max -> HmRecordChoices]}

InitMissing ==
    /\ pc = "hm"
    /\ err = "none"
    /\ hm_in \in HmTables(MaxRows)
    /\ strategy \in Strategies
    /\ hm_out = EmptyLong
    /\ hm_twice = EmptyLong
    /\ LoadIdle /\ StdIdle /\ LaterIdle

HandleMissingCall ==
    /\ pc = "hm"
    /\ hm_out' = handle_missing_data(hm_in, strategy)
    /\ pc' = "hm_once"
    /\ UNCHANGED <<err, csv, df, df_long, df_pivoted, df_clean, result, handle_missing,
                   std_in, std_out, hm_in, strategy, hm_twice>>
    /\ UNCHANGED laterVars

HandleMissingAgain ==
    /\ pc = "hm_once"
    /\ hm_twice' = handle_missing_data(hm_out, strategy)
    /\ pc' = "hm_twice"
    /\ UNCHANGED <<err, csv, df, df_long, df_pivoted, df_clean, result, handle_missing,
                   std_in, std_out, hm_in, strategy, hm_out>>
    /\ UNCHANGED laterVars

NextMissing == HandleMissingCall \/ HandleMissingAgain

SpecMissing == InitMissing /\ [][NextMissing]_vars

(***************************************************************************)
(* validate_data, lines 116-164.  The report is the list of its checks.    *)
(***************************************************************************)
\* a < b, for numbers.
RatLess(a, b) == a[1] * b[2] < b[1] * a[2]

\* The columns of a cleaned table (the index is not one of them).
TableColumns ==
    <<"country", "iso_code", "year", "ann_income_pc_growth_pct", "population_total",
      "life_expectancy_years", "gdp_pc_usd">>

\* isnull() of the cell of column c of record r.
IsNullCell(r, c) ==
    IF c = "iso_code" THEN r.iso_code.k # "str"
    ELSE IF c \in {"country", "year"} THEN FALSE
    ELSE IsNull(r[c])

\* Line 129.
missing_iso(t) == Cardinality({i \in 1..Len(t.rows) : t.rows[i].iso_code.k # "str"})

\* Line 137: a comparison with NaN is False.
negative_pop(t) ==
    Cardinality({i \in 1..Len(t.rows) :
        /\ ~IsNull(t.rows[i].population_total)
        /\ RatLess(t.rows[i].population_total, Num(0))})

\* Line 145.
unrealistic_life(t) ==
    Cardinality({i \in 1..Len(t.rows) :
        /\ ~IsNull(t.rows[i].life_expectancy_years)
        /\ \/ RatLess(t.rows[i].life_expectancy_years, Num(20))
           \/ RatLess(Num(100), t.rows[i].life_expectancy_years)})

\* df.isnull().sum() of one column, summed over the columns from position k on.
RECURSIVE NullsFrom(_, _)
NullsFrom(t, k) ==
    IF k > Len(TableColumns) THEN 0
    ELSE Cardinality({i \in 1..Len(t.rows) : IsNullCell(t.rows[i], TableColumns[k])})
         + NullsFrom(t, k + 1)

\* Line 153, with rows in place of cells.
missing_after_rows(t) ==
    Cardinality({i \in 1..Len(t.rows) :
        \E k \in 1..Len(TableColumns) : IsNullCell(t.rows[i], TableColumns[k])})

\* Line 153.
missing_after(t) == NullsFrom(t, 1)

\* One entry of validation_checks.
Check(name, count, bad) ==
    [check |-> name, count |-> count, status |-> IF count = 0 THEN "PASS" ELSE bad]

\* Lines 126-158.
validation_checks(t) ==
    <<Check("Missing ISO codes", missing_iso(t), "WARNING"),
      Check("Negative population values", negative_pop(t), "ERROR"),
      Check("Unrealistic life expectancy values", unrealistic_life(t), "ERROR"),
      Check("Total missing values after handling", missing_after(t), "WARNING")>>

\* A validity that a WARNING fails too.
validate_data_PassOnly(t) ==
    LET checks == validation_checks(t)
    IN [is_valid |-> \A i \in 1..Len(checks) : checks[i].status = "PASS",
        report |-> checks]

\* Lines 160-164.
validate_data(t) ==
    LET checks == validation_checks(t)
    IN [is_valid |-> \A i \in 1..Len(checks) : checks[i].status \in {"PASS", "WARNING"},
        report |-> checks]

(***************************************************************************)
(* validate_data called on a cleaned table.                                *)
(***************************************************************************)
VdCodes == {Str("FRA"), PyNone}
VdPopulations == {NaN, Num(-1), Num(0)}
VdLifeExpectancies == {NaN, Num(19), Num(20), Num(100), <<201, 2>>}
VdIncomes == {NaN, Num(1)}

VdRecord(i, code, pop, life, income) ==
    [id |-> i - 1, country |-> "France", iso_code |-> code, year |-> 2014 + i,
     ann_income_pc_growth_pct |-> income,
     population_total |-> pop,
     life_expectancy_years |-> life,
     gdp_pc_usd |-> Num(100 * i)]

VdRecordChoices == VdCodes \X VdPopulations \X VdLifeExpectancies \X VdIncomes

VdTables(max) ==
    {[columns |-> AllColumns,
      rows |-> AsSeq([i \in 1..n |-> VdRecord(i, c[i][1], c[i][2], c[i][3], c[i][4])])] :
        n \in 1..max, c \in [1..max -> VdRecordChoices]}

InitValidate ==
    /\ pc = "vd"
    /\ err = "none"
    /\ vd_in \in VdTables(MaxVdRows)
    /\ vd_out = [is_valid |-> TRUE, report |-> <<>>]
    /\ LoadIdle /\ StdIdle /\ MissingIdle /\ FeaturesIdle /\ DashboardIdle

ValidateCall ==
    /\ pc = "vd"
    /\ vd_out' = validate_data(vd_in)
    /\ pc' = "vd_done"
    /\ UNCHANGED <<err, vd_in, ft_df, ft_arg, ft_out>>
    /\ UNCHANGED <<loaderVars, dashboardVars>>

NextValidate == ValidateCall

SpecValidate == InitValidate /\ [][NextValidate]_vars

(***************************************************************************)
(* features.py.  Floats are exact fractions; a division of a number by 0   *)
(* is the float inf or -inf, written <<1, 0>> and <<-1, 0>>.               *)
(***************************************************************************)
Inf == <<1, 0>>
NegInf == <<-1, 0>>

RatAdd(a, b) == Frac(a[1] * b[2] + b[1] * a[2], a[2] * b[2])
RatMul(a, b) == Frac(a[1] * b[1], a[2] * b[2])

\* The float a / b, for numbers a and b.
RatDiv(a, b) ==
    IF b[1] # 0 THEN Frac(a[1] * b[2], a[2] * b[1])
    ELSE IF a[1] = 0 THEN NaN
    ELSE IF a[1] > 0 THEN Inf ELSE NegInf

\* The sum of a sequence of numbers.
RECURSIVE SumSeq(_)
SumSeq(x) == IF x = <<>> THEN Num(0) ELSE RatAdd(Head(x), SumSeq(Tail(x)))

Column(rows, col) == AsSeq([i \in 1..Len(rows) |-> rows[i][col]])

NotNull(x) == SelectSeq(x, LAMBDA v : ~IsNull(v))

\* A new RangeIndex.
Renumber(rows) == AsSeq([i \in 1..Len(rows) |-> [rows[i] EXCEPT !.id = i - 1]])

\* The distinct values of a key column in ascending order, as groupby lists
\* its groups: texts for text |-> TRUE, integers otherwise.
SortedKeys(keys, text) ==
    LET d == Distinct(keys)
        keyed == AsSeq([i \in 1..Len(d) |->
                     <<IF text THEN <<d[i], "", 0>> ELSE <<"", "", d[i]>>, d[i]>>])
        sorted == StableSort(keyed)
    IN AsSeq([i \in 1..Len(sorted) |-> sorted[i][2]])

(***************************************************************************)
(* compute_ranks, lines 8-37.                                              *)
(***************************************************************************)
\* rank(method='dense'): equal values share a rank and the next value takes
\* the next rank.
rank_dense(x) ==
    AsSeq([i \in 1..Len(x) |->
        IF IsNull(x[i]) THEN NaN
        ELSE Num(1 + Cardinality({x[j] : j \in {k \in 1..Len(x) :
                                      ~IsNull(x[k]) /\ RatLess(x[i], x[k])}}))])

\* Series.rank(ascending=False, method='min'): a null value has a null rank.
rank(x) ==
    AsSeq([i \in 1..Len(x) |->
        IF IsNull(x[i]) THEN NaN
        ELSE Num(1 + Cardinality({j \in 1..Len(x) :
                                      ~IsNull(x[j]) /\ RatLess(x[i], x[j])}))])

\* A join on country, iso_code and year.
SameKey_year(l, r) ==
    /\ l.country = r.country /\ l.year = r.year
    /\ \/ l.iso_code = r.iso_code
       \/ l.iso_code.k # "str" /\ r.iso_code.k # "str"

\* on=['country', 'iso_code']: merge matches a null key with a null key.
SameKey(l, r) ==
    /\ l.country = r.country
    /\ \/ l.iso_code = r.iso_code
       \/ l.iso_code.k # "str" /\ r.iso_code.k # "str"

\* how='inner': a record without a match in year_data is dropped.
compute_ranks_inner(t, year) ==
    LET year_data == SelectSeq(t.rows, LAMBDA r : r.year = year)
        gdp_pc_rank == rank(Column(year_data, "gdp_pc_usd"))
        population_rank == rank(Column(year_data, "population_total"))
        matches(l) ==
            LET hits == KeptPositions(Len(year_data), 1,
                            {k \in 1..Len(year_data) : SameKey(l, year_data[k])})
            IN AsSeq([h \in 1..Len(hits) |->
                        l @@ [gdp_pc_rank |-> gdp_pc_rank[hits[h]],
                              population_rank |-> population_rank[hits[h]]]])
    IN [columns |-> t.columns \cup {"gdp_pc_rank", "population_rank"},
        rows |-> Renumber(Concat(AsSeq([i \in 1..Len(t.rows) |-> matches(t.rows[i])])))]

compute_ranks(t, year) ==
    LET year_data == SelectSeq(t.rows, LAMBDA r : r.year = year)
        gdp_pc_rank == rank(Column(year_data, "gdp_pc_usd"))
        population_rank == rank(Column(year_data, "population_total"))
        matches(l) ==
            LET hits == KeptPositions(Len(year_data), 1,
                            {k \in 1..Len(year_data) : SameKey(l, year_data[k])})
            IN IF hits = <<>>
               THEN <<l @@ [gdp_pc_rank |-> NaN, population_rank |-> NaN]>>
               ELSE AsSeq([h \in 1..Len(hits) |->
                        l @@ [gdp_pc_rank |-> gdp_pc_rank[hits[h]],
                              population_rank |-> population_rank[hits[h]]]])
    IN [columns |-> t.columns \cup {"gdp_pc_rank", "population_rank"},
        rows |-> Renumber(Concat(AsSeq([i \in 1..Len(t.rows) |-> matches(t.rows[i])])))]

(***************************************************************************)
(* compute_rolling_averages, lines 39-64.                                  *)
(***************************************************************************)
\* rolling(window, min_periods=window).mean(): null until the window is full.
rolling_mean_full(x, window) ==
    AsSeq([i \in 1..Len(x) |->
        LET seen == NotNull(SubSeq(x, IF i > window THEN i - window + 1 ELSE 1, i))
        IN IF Len(seen) < window THEN NaN
           ELSE RatDiv(SumSeq(seen), Num(Len(seen)))])

\* x.rolling(window=window, min_periods=1).mean(): the mean of the non-null
\* values of the window, null when it has none.
rolling_mean(x, window) ==
    AsSeq([i \in 1..Len(x) |->
        LET seen == NotNull(SubSeq(x, IF i > window THEN i - window + 1 ELSE 1, i))
        IN IF seen = <<>> THEN NaN
           ELSE RatDiv(SumSeq(seen), Num(Len(seen)))])

rolling_cols == <<"ann_income_pc_growth_pct">>

RollingName(col, window) == col \o "_rolling_" \o ToText(window) \o "yr"

compute_rolling_averages(t, window) ==
    LET sorted == SortByCountryYear(t.rows)
        col == rolling_cols[1]
        value(i) ==
            LET members == GroupOf(sorted, i)
                at == CHOOSE k \in 1..Len(members) : members[k] = i
            IN rolling_mean(AsSeq([k \in 1..Len(members) |-> sorted[members[k]][col]]),
                            window)[at]
    IN IF col \notin t.columns THEN [t EXCEPT !.rows = sorted]
       ELSE [columns |-> t.columns \cup {RollingName(col, window)},
             rows |-> AsSeq([i \in 1..Len(sorted) |->
                         sorted[i] @@ (RollingName(col, window) :> value(i))])]

(***************************************************************************)
(* create_latest_year_snapshot, lines 66-87.                               *)
(***************************************************************************)
\* The first year of the country.
LatestYear_min(rows, country) ==
    LET years == {rows[i].year : i \in {j \in 1..Len(rows) : rows[j].country = country}}
    IN CHOOSE y \in years : \A z \in years : y <= z

\* df.groupby('country')['year'].max()
LatestYear(rows, country) ==
    LET years == {rows[i].year : i \in {j \in 1..Len(rows) : rows[j].country = country}}
    IN CHOOSE y \in years : \A z \in years : z <= y

create_latest_year_snapshot(t) ==
    LET latest_years == SortedKeys(Column(t.rows, "country"), TRUE)
        matches(c) ==
            SelectSeq(t.rows, LAMBDA r : r.country = c /\ r.year = LatestYear(t.rows, c))
    IN [t EXCEPT !.rows =
           Renumber(Concat(AsSeq([i \in 1..Len(latest_years) |-> matches(latest_years[i])])))]

(***************************************************************************)
(* compute_world_aggregates, lines 89-111.                                 *)
(***************************************************************************)
\* np.average(a, weights=w) raises ZeroDivisionError when the weights sum to
\* 0.0; a null weight makes the sum NaN, which is not 0.0.
AverageRaises(w) == NotNull(w) = w /\ SumSeq(w) = Num(0)

\* np.average(a, weights=w), when it returns: NaN if a value or a weight is.
average(a, w) ==
    IF NotNull(w) # w \/ NotNull(a) # a THEN NaN
    ELSE RatDiv(SumSeq(AsSeq([i \in 1..Len(a) |-> RatMul(a[i], w[i])])), SumSeq(w))

YearGroup(rows, year) == SelectSeq(rows, LAMBDA r : r.year = year)

WorldAggregatesRaises(t) ==
    \E y \in {t.rows[i].year : i \in 1..Len(t.rows)} :
        AverageRaises(Column(YearGroup(t.rows, y), "population_total"))

compute_world_aggregates(t) ==
    LET years == SortedKeys(Column(t.rows, "year"), FALSE)
        world_metrics(y) ==
            LET x == YearGroup(t.rows, y)
                w == Column(x, "population_total")
            IN [year |-> y,
                world_gdp_pc_weighted |-> average(Column(x, "gdp_pc_usd"), w),
                world_life_expectancy_weighted |->
                    average(Column(x, "life_expectancy_years"), w),
                world_income_growth_weighted |->
                    average(Column(x, "ann_income_pc_growth_pct"), w),
                world_population_total |-> SumSeq(NotNull(w))]
    IN [columns |-> {"year", "world_gdp_pc_weighted", "world_life_expectancy_weighted",
                     "world_income_growth_weighted", "world_population_total"},
        rows |-> AsSeq([i \in 1..Len(years) |-> world_metrics(years[i])])]

(***************************************************************************)
(* calculate_year_over_year_changes, lines 113-135.  pct_change fills the  *)
(* gaps of the group forward before it divides (fill_method 'ffill', the   *)
(* default before pandas 3) or does not (pandas 3): fill_method says which.*)
(***************************************************************************)
PctFillMethods == {"ffill", "none"}

\* A change from the record before it in the table, of any country.
pct_change_ungrouped(rows, i, metric, fill_method) ==
    LET x == Column(rows, metric)
        filled == IF fill_method = "ffill" THEN ffill(x) ELSE x
    IN IF i = 1 \/ IsNull(filled[i]) \/ IsNull(filled[i - 1]) THEN NaN
       ELSE LET q == RatDiv(filled[i], filled[i - 1])
            IN IF q = NaN \/ q = Inf \/ q = NegInf THEN q
               ELSE RatMul(RatAdd(q, Num(-1)), Num(100))

\* groupby('country')[metric].pct_change() * 100 at row i: the value (after
\* the fill) over the value of the record before it in the group, minus 1.
pct_change(rows, i, metric, fill_method) ==
    LET members == GroupOf(rows, i)
        at == CHOOSE k \in 1..Len(members) : members[k] = i
        x == AsSeq([k \in 1..Len(members) |-> rows[members[k]][metric]])
        filled == IF fill_method = "ffill" THEN ffill(x) ELSE x
    IN IF at = 1 \/ IsNull(filled[at]) \/ IsNull(filled[at - 1]) THEN NaN
       ELSE LET q == RatDiv(filled[at], filled[at - 1])
            IN IF q = NaN \/ q = Inf \/ q = NegInf THEN q
               ELSE RatMul(RatAdd(q, Num(-1)), Num(100))

metrics == <<"gdp_pc_usd", "life_expectancy_years", "population_total">>

calculate_year_over_year_changes(t, fill_method) ==
    LET sorted == SortByCountryYear(t.rows)
    IN [columns |-> t.columns \cup {metrics[k] \o "_yoy_pct" : k \in 1..Len(metrics)},
        rows |-> AsSeq([i \in 1..Len(sorted) |->
                    sorted[i] @@
                    [c \in {metrics[k] \o "_yoy_pct" : k \in 1..Len(metrics)} |->
                        pct_change(sorted, i,
                                   SubSeq(c, 1, Len(c) - Len("_yoy_pct")), fill_method)]])]

(***************************************************************************)
(* engineer_features, lines 137-173.                                       *)
(***************************************************************************)
\* The defaults of compute_rolling_averages (line 39) and engineer_features
\* (line 137).
default_window == 3
default_reference_year == 2023

df_with_yoy(t, reference_year, fill_method) ==
    calculate_year_over_year_changes(
        compute_rolling_averages(compute_ranks(t, reference_year), default_window),
        fill_method)

\* The snapshot and the aggregates built from the input table.
engineer_features_of_input(t, reference_year, fill_method) ==
    [main_data |-> df_with_yoy(t, reference_year, fill_method),
     latest_snapshot |-> create_latest_year_snapshot(t),
     world_aggregates |-> compute_world_aggregates(t)]

engineer_features(t, reference_year, fill_method) ==
    LET main == df_with_yoy(t, reference_year, fill_method)
    IN [main_data |-> main,
        latest_snapshot |-> create_latest_year_snapshot(main),
        world_aggregates |-> compute_world_aggregates(main)]

(***************************************************************************)
(* The functions of features.py called on a cleaned table: at most one     *)
(* record per (country, year), in (country, year) order as                 *)
(* load_and_transform_data returns it, or in the reverse order.            *)
(***************************************************************************)
FtYears == <<2021, 2022, 2023>>
Windows == {2, 3}

\* The (country, iso_code, year) a record can have, in (country, year)
\* order: two countries of three years and one of a null code.
FtKeyList ==
    <<<<"France", Str("FRA"), 2021>>, <<"France", Str("FRA"), 2022>>,
      <<"France", Str("FRA"), 2023>>, <<"Russia", Str("RUS"), 2021>>,
      <<"Russia", Str("RUS"), 2022>>, <<"Russia", Str("RUS"), 2023>>,
      <<"World", PyNone, 2023>>>>

\* What a record holds: gdp_pc_usd, population_total, life_expectancy_years,
\* ann_income_pc_growth_pct.
Profiles ==
    {<<Num(100), Num(10), Num(70), Num(4)>>,
     <<Num(200), Num(90), Num(80), Num(1)>>,
     <<Num(0), Num(0), Num(0), Num(0)>>,
     <<NaN, NaN, NaN, NaN>>}

FtKeys == 1..Len(FtKeyList)

FtRecord(key, profile) ==
    [id |-> 0,
     country |-> FtKeyList[key][1],
     iso_code |-> FtKeyList[key][2],
     year |-> FtKeyList[key][3],
     ann_income_pc_growth_pct |-> profile[4],
     population_total |-> profile[2],
     life_expectancy_years |-> profile[3],
     gdp_pc_usd |-> profile[1]]

Reverse(s) == AsSeq([i \in 1..Len(s) |-> s[Len(s) + 1 - i]])

FtTable(keys, profile, reversed) ==
    LET at == KeptPositions(Len(FtKeyList), 1, keys)
        rows == AsSeq([i \in 1..Len(at) |-> FtRecord(at[i], profile[at[i]])])
    IN [columns |-> AllColumns,
        rows |-> Renumber(IF reversed THEN Reverse(rows) ELSE rows)]

FtKeySets == {k \in SUBSET FtKeys : k # {} /\ Cardinality(k) <= MaxFtRows}

InitFeatures ==
    /\ pc = "ft"
    /\ err = "none"
    /\ \E keys \in FtKeySets :
          \E profile \in [keys -> Profiles], reversed \in BOOLEAN :
              ft_df = FtTable(keys, profile, reversed)
    /\ ft_arg = 0
    /\ ft_out = EmptyLong
    /\ LoadIdle /\ StdIdle /\ MissingIdle /\ ValidateIdle /\ DashboardIdle

ComputeRanks ==
    /\ pc = "ft"
    /\ \E year \in Range(FtYears) :
          /\ ft_arg' = year
          /\ ft_out' = compute_ranks(ft_df, year)
    /\ pc' = "ranks_done"
    /\ UNCHANGED <<err, ft_df, vd_in, vd_out>>
    /\ UNCHANGED <<loaderVars, dashboardVars>>

ComputeRollingAverages ==
    /\ pc = "ft"
    /\ \E window \in Windows :
          /\ ft_arg' = window
          /\ ft_out' = compute_rolling_averages(ft_df, window)
    /\ pc' = "rolling_done"
    /\ UNCHANGED <<err, ft_df, vd_in, vd_out>>
    /\ UNCHANGED <<loaderVars, dashboardVars>>

CalculateYearOverYearChanges ==
    /\ pc = "ft"
    /\ \E fill_method \in PctFillMethods :
          /\ ft_arg' = fill_method
          /\ ft_out' = calculate_year_over_year_changes(ft_df, fill_method)
    /\ pc' = "yoy_done"
    /\ UNCHANGED <<err, ft_df, vd_in, vd_out>>
    /\ UNCHANGED <<loaderVars, dashboardVars>>

CreateLatestYearSnapshot ==
    /\ pc = "ft"
    /\ ft_out' = create_latest_year_snapshot(ft_df)
    /\ pc' = "snapshot_done"
    /\ UNCHANGED <<err, ft_df, ft_arg, vd_in, vd_out>>
    /\ UNCHANGED <<loaderVars, dashboardVars>>

ComputeWorldAggregates ==
    /\ pc = "ft"
    /\ \/ /\ WorldAggregatesRaises(ft_df) = TRUE
          /\ pc' = "aggregates_failed"
          /\ err' = "ZeroDivisionError"
          /\ UNCHANGED ft_out
       \/ /\ ~WorldAggregatesRaises(ft_df)
          /\ pc' = "aggregates_done"
          /\ ft_out' = compute_world_aggregates(ft_df)
          /\ UNCHANGED err
    /\ UNCHANGED <<ft_df, ft_arg, vd_in, vd_out>>
    /\ UNCHANGED <<loaderVars, dashboardVars>>

EngineerFeatures ==
    /\ pc = "ft"
    /\ \E fill_method \in PctFillMethods :
          /\ ft_arg' = fill_method
          /\ \/ /\ WorldAggregatesRaises(ft_df) = TRUE
                /\ pc' = "features_failed"
                /\ err' = "ZeroDivisionError"
                /\ UNCHANGED ft_out
             \/ /\ ~WorldAggregatesRaises(ft_df)
                /\ pc' = "features_done"
                /\ ft_out' = engineer_features(ft_df, default_reference_year, fill_method)
                /\ UNCHANGED err
    /\ UNCHANGED <<ft_df, vd_in, vd_out>>
    /\ UNCHANGED <<loaderVars, dashboardVars>>

NextFeatures ==
    \/ ComputeRanks
    \/ ComputeRollingAverages
    \/ CalculateYearOverYearChanges
    \/ CreateLatestYearSnapshot
    \/ ComputeWorldAggregates
    \/ EngineerFeatures

SpecFeatures == InitFeatures /\ [][NextFeatures]_vars

(***************************************************************************)
(* forecast.py.  A series is what prepare_forecast_data returns: None, or  *)
(* the rows (year, value) of a frame indexed by year.  A forecast result   *)
(* is the sequence of the rows (year, value, type) of the returned frame.  *)
(***************************************************************************)
NoSeries == [none |-> TRUE, rows |-> <<>>]
Series(rows) == [none |-> FALSE, rows |-> rows]

\* sort_index() of a frame indexed by year.
SortByYear(rows) ==
    LET keyed == AsSeq([i \in 1..Len(rows) |-> <<<<"", "", rows[i].year>>, rows[i]>>])
        sorted == StableSort(keyed)
    IN AsSeq([i \in 1..Len(sorted) |-> sorted[i][2]])

\* Lines 12-33 with "<=" for "<" in line 27.
prepare_forecast_data_strict(main_data, country, indicator, min_data_points) ==
    LET country_data == SelectSeq(main_data.rows, LAMBDA r : r.country = country)
        pairs == AsSeq([i \in 1..Len(country_data) |->
                     [year |-> country_data[i].year, value |-> country_data[i][indicator]]])
        ts_data == SelectSeq(pairs, LAMBDA r : ~IsNull(r.value))
    IN IF country_data = <<>> THEN NoSeries
       ELSE IF Len(ts_data) <= min_data_points THEN NoSeries
       ELSE Series(SortByYear(ts_data))

\* Lines 12-33.
prepare_forecast_data(main_data, country, indicator, min_data_points) ==
    LET country_data == SelectSeq(main_data.rows, LAMBDA r : r.country = country)
        pairs == AsSeq([i \in 1..Len(country_data) |->
                     [year |-> country_data[i].year, value |-> country_data[i][indicator]]])
        ts_data == SelectSeq(pairs, LAMBDA r : ~IsNull(r.value))
    IN IF country_data = <<>> THEN NoSeries
       ELSE IF Len(ts_data) < min_data_points THEN NoSeries
       ELSE Series(SortByYear(ts_data))

\* LinearRegression().fit(X, y), lines 44-45: the least-squares line of
\* value against year; with a single year the slope is 0 (the least-norm
\* solution).
LinearRegression(rows) ==
    LET n == Len(rows)
        x == AsSeq([i \in 1..n |-> Num(rows[i].year)])
        y == AsSeq([i \in 1..n |-> rows[i].value])
        sx == SumSeq(x)
        sy == SumSeq(y)
        sxx == SumSeq(AsSeq([i \in 1..n |-> RatMul(x[i], x[i])]))
        sxy == SumSeq(AsSeq([i \in 1..n |-> RatMul(x[i], y[i])]))
        den == RatAdd(RatMul(Num(n), sxx), RatMul(Num(-1), RatMul(sx, sx)))
        coef == IF den = Num(0) THEN Num(0)
                ELSE RatDiv(RatAdd(RatMul(Num(n), sxy), RatMul(Num(-1), RatMul(sx, sy))), den)
    IN [coef |-> coef,
        intercept |-> RatDiv(RatAdd(sy, RatMul(Num(-1), RatMul(coef, sx))), Num(n))]

\* model.predict, line 52.
predict(model, year) == RatAdd(model.intercept, RatMul(model.coef, Num(year)))

\* ts_data.index.max(), lines 48 and 94.
last_year(rows) ==
    CHOOSE y \in {rows[i].year : i \in 1..Len(rows)} :
        \A i \in 1..Len(rows) : rows[i].year <= y

\* np.arange(last_year, last_year + forecast_years): starts at the last
\* observed year.
future_years_from_last(rows, forecast_years) ==
    AsSeq([k \in 1..forecast_years |-> last_year(rows) + k - 1])

\* Line 49: np.arange(last_year + 1, last_year + forecast_years + 1).
future_years(rows, forecast_years) ==
    AsSeq([k \in 1..forecast_years |-> last_year(rows) + k])

\* Lines 55-59 and 87-91.
historical(rows) ==
    AsSeq([i \in 1..Len(rows) |->
        [year |-> rows[i].year, value |-> rows[i].value, type |-> "Historical"]])

\* Lines 35-67.
linear_regression_forecast(ts_data, forecast_years) ==
    LET model == LinearRegression(ts_data.rows)
        years == future_years(ts_data.rows, forecast_years)
        forecast == AsSeq([k \in 1..Len(years) |->
                        [year |-> years[k], value |-> predict(model, years[k]),
                         type |-> "Forecast"]])
    IN historical(ts_data.rows) \o forecast

\* The outcomes of ExponentialSmoothing(...).fit() and forecast(), lines
\* 75-84: an exception, or a fitted model.  The optimizer is not modelled:
\* a fitted model forecasts from the last observed value with one of two
\* yearly trends.
Fits == {"raises", "flat", "rising"}

fitted_forecast(rows, fit, k) ==
    LET level == rows[Len(rows)].value
        trend == IF fit = "flat" THEN Num(0) ELSE Num(5)
    IN RatAdd(level, RatMul(trend, Num(k)))

\* Lines 100-102 without the call of line 102: the historical rows only.
fallback_historical(ts_data, forecast_years) == historical(ts_data.rows)

\* Lines 100-102: the except branch.
fallback(ts_data, forecast_years) == linear_regression_forecast(ts_data, forecast_years)

\* Lines 69-102.
exponential_smoothing_forecast(ts_data, forecast_years, fit) ==
    IF fit = "raises" THEN fallback(ts_data, forecast_years)
    ELSE LET last == last_year(ts_data.rows)
             forecast_df == AsSeq([k \in 1..forecast_years |->
                                [year |-> last + k,
                                 value |-> fitted_forecast(ts_data.rows, fit, k),
                                 type |-> "Forecast"]])
         IN historical(ts_data.rows) \o forecast_df

(***************************************************************************)
(* The functions of forecast.py called as the forecast page calls them     *)
(* (app.py lines 505-518): prepare_forecast_data on a main_data table of   *)
(* at most one record per (country, year), then one of the two forecasts   *)
(* on the series it returned.                                              *)
(***************************************************************************)
MaxFcRows == 3

FcProfiles ==
    {<<Num(100), Num(10), Num(70), Num(4)>>,
     <<Num(250), Num(90), NaN, Num(1)>>,
     <<NaN, NaN, Num(80), NaN>>}

FcCountries == {"France", "Russia", "Italy"}
FcIndicators == {"gdp_pc_usd", "life_expectancy_years"}
MinPoints == {1, 3}
Horizons == {1, 3}

FcKeySets == {k \in SUBSET (1..6) : k # {} /\ Cardinality(k) <= MaxFcRows}

InitForecast ==
    /\ pc = "fc"
    /\ err = "none"
    /\ \E keys \in FcKeySets :
          \E profile \in [keys -> FcProfiles], reversed \in BOOLEAN :
              fc_main = FtTable(keys, profile, reversed)
    /\ fc_call = [country |-> "", indicator |-> "", min_data_points |-> 0,
                  forecast_years |-> 0]
    /\ fc_ts = NoSeries
    /\ fc_out = <<>>
    /\ LoadIdle /\ StdIdle /\ MissingIdle /\ ValidateIdle /\ FeaturesIdle
    /\ AppIdle /\ FilterIdle /\ CoreIdle

PrepareForecastData ==
    /\ pc = "fc"
    /\ \E country \in FcCountries, indicator \in FcIndicators, min_data_points \in MinPoints :
          /\ fc_call' = [fc_call EXCEPT !.country = country, !.indicator = indicator,
                                        !.min_data_points = min_data_points]
          /\ fc_ts' = prepare_forecast_data(fc_main, country, indicator, min_data_points)
    /\ pc' = IF fc_ts'.none THEN "insufficient" ELSE "prepared"
    /\ UNCHANGED <<err, fc_main, fc_out>>
    /\ UNCHANGED <<loaderVars, vd_in, vd_out, ft_df, ft_arg, ft_out>>
    /\ UNCHANGED <<appVars, filterVars, coreVars>>

LinearRegressionForecast ==
    /\ pc = "prepared"
    /\ \E forecast_years \in Horizons :
          /\ fc_call' = [fc_call EXCEPT !.forecast_years = forecast_years]
          /\ fc_out' = linear_regression_forecast(fc_ts, forecast_years)
    /\ pc' = "linear_done"
    /\ UNCHANGED <<err, fc_main, fc_ts>>
    /\ UNCHANGED <<loaderVars, vd_in, vd_out, ft_df, ft_arg, ft_out>>
    /\ UNCHANGED <<appVars, filterVars, coreVars>>

ExponentialSmoothingForecast ==
    /\ pc = "prepared"
    /\ \E forecast_years \in Horizons, fit \in Fits :
          /\ fc_call' = [fc_call EXCEPT !.forecast_years = forecast_years]
          /\ fc_out' = exponential_smoothing_forecast(fc_ts, forecast_years, fit)
          /\ pc' = IF fit = "raises" THEN "smoothing_fell_back" ELSE "smoothing_done"
    /\ UNCHANGED <<err, fc_main, fc_ts>>
    /\ UNCHANGED <<loaderVars, vd_in, vd_out, ft_df, ft_arg, ft_out>>
    /\ UNCHANGED <<appVars, filterVars, coreVars>>

NextForecast ==
    \/ PrepareForecastData
    \/ LinearRegressionForecast
    \/ ExponentialSmoothingForecast

SpecForecast == InitForecast /\ [][NextForecast]_vars

(***************************************************************************)
(* utils.py load_all_data (lines 10-32) under st.cache_data, and app.py    *)
(* main (lines 27-115).  A file of data/processed/features is absent,      *)
(* unreadable (read_csv raises on it) or holds one of two contents.  A     *)
(* bundle is the dict load_all_data returns: a function from the names of  *)
(* its tables to their contents, the empty dict being <<>>.  Streamlit     *)
(* runs main once per user interaction.                                    *)
(***************************************************************************)
FileStates == {"absent", "unreadable", "v1", "v2"}

\* Does pd.read_csv raise on the file?
ReadRaises(state) == state \in {"absent", "unreadable"}

\* Lines 17, 20 and 23, in order.
ReadOrder == <<"main_data", "latest_snapshot", "world_aggregates">>

\* The reads that succeed before the first one that raises.
RECURSIVE ReadsBeforeFailure(_, _)
ReadsBeforeFailure(fs, i) ==
    IF i > Len(ReadOrder) \/ ReadRaises(fs[ReadOrder[i]]) THEN {}
    ELSE {ReadOrder[i]} \cup ReadsBeforeFailure(fs, i + 1)

\* A body that returns the tables it read before the failure.
load_all_data_partial(fs) == [f \in ReadsBeforeFailure(fs, 1) |-> fs[f]]

\* Lines 15-32: the body of load_all_data; an exception of a read is caught
\* (line 30) and the empty dict returned (line 32).
load_all_data(fs) ==
    IF ReadsBeforeFailure(fs, 1) = FileNames
    THEN [f \in FileNames |-> fs[f]]
    ELSE <<>>

\* A cache that never holds an entry.
CacheHit_never(c) == FALSE

\* Line 10, @st.cache_data without ttl or max_entries: the entry of the
\* call without arguments, once stored, is returned by every later call.
CacheHit(c) == c # <<>>

\* Lines 99-105.
Pages == {"Overview", "Country Compare", "Relationships", "Forecast", "Data & Download"}

InitApp ==
    /\ pc = "app"
    /\ err = "none"
    /\ files \in [FileNames -> FileStates]
    /\ cache = <<>>
    /\ data = <<>>
    /\ shown = "nothing"
    /\ body_ran = FALSE
    /\ LoadIdle /\ StdIdle /\ MissingIdle /\ ValidateIdle /\ FeaturesIdle
    /\ ForecastIdle /\ FilterIdle /\ CoreIdle

\* One run of main for a user interaction: lines 31-35, then the selected
\* page (line 115).  st.cache_data stores what the body returns, the empty
\* dict included.
Main ==
    /\ pc = "app"
    /\ \E selected_page \in Pages :
          LET hit == CacheHit(cache)
              value == IF hit THEN cache[1] ELSE load_all_data(files)
          IN /\ body_ran' = ~hit
             /\ cache' = <<value>>
             /\ data' = value
             /\ shown' = IF value = <<>> THEN "load_error" ELSE selected_page
    /\ UNCHANGED <<pc, err, files>>
    /\ UNCHANGED <<loaderVars, vd_in, vd_out, ft_df, ft_arg, ft_out>>
    /\ UNCHANGED <<forecastVars, filterVars, coreVars>>

\* The pipeline (or anything else) writes, damages or removes a file.
WriteFile ==
    /\ pc = "app"
    /\ \E f \in FileNames, state \in FileStates :
          /\ state # files[f]
          /\ files' = [files EXCEPT ![f] = state]
    /\ UNCHANGED <<pc, err, cache, data, shown, body_ran>>
    /\ UNCHANGED <<loaderVars, vd_in, vd_out, ft_df, ft_arg, ft_out>>
    /\ UNCHANGED <<forecastVars, filterVars, coreVars>>

\* The user clears the cache (st.cache_data.clear(), "Clear cache").
ClearCache ==
    /\ pc = "app"
    /\ cache # <<>>
    /\ cache' = <<>>
    /\ UNCHANGED <<pc, err, files, data, shown, body_ran>>
    /\ UNCHANGED <<loaderVars, vd_in, vd_out, ft_df, ft_arg, ft_out>>
    /\ UNCHANGED <<forecastVars, filterVars, coreVars>>

\* The server is restarted: the cache of the process is gone.
Restart ==
    /\ pc = "app"
    /\ shown # "nothing"
    /\ cache' = <<>>
    /\ data' = <<>>
    /\ shown' = "nothing"
    /\ body_ran' = FALSE
    /\ UNCHANGED <<pc, err, files>>
    /\ UNCHANGED <<loaderVars, vd_in, vd_out, ft_df, ft_arg, ft_out>>
    /\ UNCHANGED <<forecastVars, filterVars, coreVars>>

NextApp ==
    \/ Main
    \/ WriteFile
    \/ ClearCache
    \/ Restart

SpecApp == InitApp /\ [][NextApp]_vars

(***************************************************************************)
(* utils.py filter_data, lines 89-101.                                     *)
(***************************************************************************)
\* min(years) and max(years), line 99.
MinOf(years) == CHOOSE y \in Range(years) : \A z \in Range(years) : y <= z
MaxOf(years) == CHOOSE y \in Range(years) : \A z \in Range(years) : z <= y

\* Lines 93-101 without the tests of lines 95 and 98: an empty list of
\* countries selects no row.
filter_data_always(t, selected_countries, years) ==
    LET by_country == SelectSeq(t.rows, LAMBDA r : r.country \in Range(selected_countries))
    IN [t EXCEPT !.rows =
            IF years = <<>> THEN by_country
            ELSE SelectSeq(by_country,
                           LAMBDA r : MinOf(years) <= r.year /\ r.year <= MaxOf(years))]

\* Lines 93-101: an empty list is falsy and skips its filter; between() is
\* inclusive on both sides; the rows keep their index labels.
filter_data(t, selected_countries, years) ==
    LET by_country ==
            IF selected_countries # <<>>
            THEN SelectSeq(t.rows, LAMBDA r : r.country \in Range(selected_countries))
            ELSE t.rows
    IN [t EXCEPT !.rows =
            IF years # <<>>
            THEN SelectSeq(by_country,
                           LAMBDA r : MinOf(years) <= r.year /\ r.year <= MaxOf(years))
            ELSE by_country]

(***************************************************************************)
(* filter_data called on a table of at most one record per (country,       *)
(* year), and again on what it returned.                                   *)
(***************************************************************************)
MaxFdRows == 3

CountryLists == {<<>>, <<"France">>, <<"Russia", "France">>, <<"Italy">>}
YearLists == {<<>>, <<2022>>, <<2021, 2022>>, <<2023, 2022>>, <<2021, 2023, 2022>>}

FdKeySets == {k \in SUBSET FtKeys : k # {} /\ Cardinality(k) <= MaxFdRows}

InitFilter ==
    /\ pc = "fd"
    /\ err = "none"
    /\ \E keys \in FdKeySets, reversed \in BOOLEAN :
          fd_df = FtTable(keys, [k \in keys |-> <<Num(100), Num(10), Num(70), Num(4)>>],
                          reversed)
    /\ fd_call = [countries |-> <<>>, years |-> <<>>]
    /\ fd_out = EmptyLong
    /\ fd_twice = EmptyLong
    /\ LoadIdle /\ StdIdle /\ MissingIdle /\ ValidateIdle /\ FeaturesIdle
    /\ ForecastIdle /\ AppIdle /\ CoreIdle

FilterData ==
    /\ pc = "fd"
    /\ \E selected_countries \in CountryLists, years \in YearLists :
          /\ fd_call' = [countries |-> selected_countries, years |-> years]
          /\ fd_out' = filter_data(fd_df, selected_countries, years)
          /\ fd_twice' = filter_data(fd_out', selected_countries, years)
    /\ pc' = "filtered"
    /\ UNCHANGED <<err, fd_df>>
    /\ UNCHANGED <<loaderVars, vd_in, vd_out, ft_df, ft_arg, ft_out>>
    /\ UNCHANGED <<forecastVars, appVars, coreVars>>

NextFilter == FilterData

SpecFilter == InitFilter /\ [][NextFilter]_vars

(***************************************************************************)
(* The table a caller passes to a function of the core, as an object: the  *)
(* function's parameter names the caller's object, and each statement of   *)
(* the function that binds a name or assigns a column is one of            *)
(*   Copy(dst, src)     dst = src.copy()                                   *)
(*   New(dst, src)      dst = a new frame computed from src (a boolean     *)
(*                      selection, sort_values, dropna, merge, groupby)    *)
(*   View(dst, src)     dst = src.values, which shares the data of src     *)
(*   SetItem(dst, col)  dst[col] = ..., an assignment in place             *)
(***************************************************************************)
Copy(dst, src) == [op |-> "copy", dst |-> dst, src |-> src]
New(dst, src) == [op |-> "new", dst |-> dst, src |-> src]
View(dst, src) == [op |-> "view", dst |-> dst, src |-> src]
SetItem(dst, col) == [op |-> "setitem", dst |-> dst, src |-> col]

\* The name of the parameter that holds the caller's table.
Params ==
    [filter_data |-> "df", calculate_kpis |-> "df",
     prepare_forecast_data |-> "main_data",
     linear_regression_forecast |-> "ts_data",
     exponential_smoothing_forecast |-> "ts_data",
     compute_ranks |-> "df", compute_rolling_averages |-> "df",
     calculate_year_over_year_changes |-> "df",
     create_latest_year_snapshot |-> "df", compute_world_aggregates |-> "df",
     standardize_country_codes |-> "df", handle_missing_data |-> "df"]

\* The statements of each function, in order: utils.py filter_data (lines
\* 93, 96, 99) and calculate_kpis (120-121); forecast.py
\* prepare_forecast_data (18, 24, 31), linear_regression_forecast (40, 41,
\* 55, 61) and exponential_smoothing_forecast (75, 87, and line 102's call
\* of linear_regression_forecast); features.py compute_ranks (19, 22, 25,
\* 26, 30), compute_rolling_averages (50, 53, 60),
\* calculate_year_over_year_changes (123, 126, 133),
\* create_latest_year_snapshot (77, 80) and compute_world_aggregates (99,
\* 102); data_loader.py standardize_country_codes (21, 63, 69) and
\* handle_missing_data (86, 89, 101-110).
Programs ==
    [filter_data |->
        <<Copy("filtered_df", "df"), New("filtered_df", "filtered_df"),
          New("filtered_df", "filtered_df")>>,
     calculate_kpis |->
        <<New("current_data", "df"), New("previous_data", "df")>>,
     prepare_forecast_data |->
        <<New("country_data", "main_data"), New("ts_data", "country_data"),
          New("ts_data", "ts_data")>>,
     linear_regression_forecast |->
        <<Copy("X", "ts_data"), View("y", "ts_data"),
          New("historical", "ts_data"), New("forecast", "X")>>,
     exponential_smoothing_forecast |->
        <<New("model", "ts_data"), New("historical", "ts_data"),
          Copy("X", "ts_data"), View("y", "ts_data"),
          New("historical", "ts_data"), New("forecast", "X")>>,
     compute_ranks |->
        <<Copy("df_ranked", "df"), Copy("year_data", "df_ranked"),
          SetItem("year_data", "gdp_pc_rank"), SetItem("year_data", "population_rank"),
          New("df_ranked", "df_ranked")>>,
     compute_rolling_averages |->
        <<Copy("df_rolling", "df"), New("df_rolling", "df_rolling"),
          SetItem("df_rolling", "ann_income_pc_growth_pct_rolling_3yr")>>,
     calculate_year_over_year_changes |->
        <<Copy("df_yoy", "df"), New("df_yoy", "df_yoy"),
          SetItem("df_yoy", "gdp_pc_usd_yoy_pct"),
          SetItem("df_yoy", "life_expectancy_years_yoy_pct"),
          SetItem("df_yoy", "population_total_yoy_pct")>>,
     create_latest_year_snapshot |->
        <<New("latest_years", "df"), New("latest_snapshot", "df")>>,
     compute_world_aggregates |->
        <<Copy("world_agg", "df"), New("world_metrics", "world_agg")>>,
     standardize_country_codes |->
        <<Copy("df_clean", "df"), SetItem("df_clean", "iso_code"),
          New("invalid_countries", "df_clean")>>,
     handle_missing_data |->
        <<Copy("df_clean", "df"), New("df_clean", "df_clean"),
          SetItem("df_clean", "ann_income_pc_growth_pct"),
          SetItem("df_clean", "gdp_pc_usd"),
          SetItem("df_clean", "life_expectancy_years"),
          SetItem("df_clean", "population_total")>>]

CoreFunctions == DOMAIN Programs

\* dst = src without .copy(): dst names the object src names.
SameObject(shared, dst, src) ==
    IF src \in shared THEN shared \cup {dst} ELSE shared \ {dst}

\* The names that refer to the caller's object after dst = src.copy() or
\* dst = a new frame: dst names an object of its own.
OwnObject(shared, dst, src) == shared \ {dst}

\* The columns of the caller's table that the statements from the i-th on
\* assign in place, shared being the names that refer to the caller's
\* object.
RECURSIVE InPlaceWrites(_, _, _)
InPlaceWrites(body, i, shared) ==
    IF i > Len(body) THEN {}
    ELSE LET s == body[i]
         IN IF s.op \in {"copy", "new"}
            THEN InPlaceWrites(body, i + 1, OwnObject(shared, s.dst, s.src))
            ELSE IF s.op = "view"
            THEN InPlaceWrites(body, i + 1, SameObject(shared, s.dst, s.src))
            ELSE (IF s.dst \in shared THEN {s.src} ELSE {})
                 \cup InPlaceWrites(body, i + 1, shared)

(***************************************************************************)
(* A caller that holds a table (a cached base table) and passes it to the  *)
(* functions of the core, one call after the other.                        *)
(***************************************************************************)
InitCore ==
    /\ pc = "core"
    /\ err = "none"
    /\ \E keys \in FdKeySets, reversed \in BOOLEAN :
          core_df = FtTable(keys, [k \in keys |-> <<Num(100), Num(10), Num(70), Num(4)>>],
                            reversed)
    /\ core_writes = {}
    /\ core_fn = ""
    /\ LoadIdle /\ StdIdle /\ MissingIdle /\ ValidateIdle /\ FeaturesIdle
    /\ ForecastIdle /\ AppIdle /\ FilterIdle

\* One call f(core_df, ...): a column assigned in place is a column of the
\* caller's table from then on.
CallCoreFunction ==
    /\ pc = "core"
    /\ \E fn \in CoreFunctions :
          LET written == InPlaceWrites(Programs[fn], 1, {Params[fn]})
          IN /\ core_fn' = fn
             /\ core_writes' = core_writes \cup written
             /\ core_df' = [core_df EXCEPT !.columns = @ \cup written]
    /\ UNCHANGED <<pc, err>>
    /\ UNCHANGED <<loaderVars, vd_in, vd_out, ft_df, ft_arg, ft_out>>
    /\ UNCHANGED <<forecastVars, appVars, filterVars>>

NextCore == CallCoreFunction

SpecCore == InitCore /\ [][NextCore]_vars

(***************************************************************************)
(* Properties of load_and_transform_data (specification Spec).             *)
(***************************************************************************)
Rows(t) == 1..Len(t.rows)

\* C1: the table load_and_transform_data returns holds at most one record
\* per (country, year), also when a country name comes with several codes.
C1_UniquePerCountryYear ==
    pc = "done" =>
        \A i, j \in Rows(result) :
            /\ result.rows[i].country = result.rows[j].country
            /\ result.rows[i].year = result.rows[j].year
            => i = j

\* The years of the year columns of a file, as numbers, in column order.
FileYears(f) ==
    LET ycols == year_columns(f)
    IN AsSeq([k \in 1..Len(ycols) |-> ParseDigits(ycols[k].year, 0)])

FileCountries(f) == {f.rows[j].name : j \in 1..Len(f.rows)}

\* A wide file of C countries, each under one code, with one row for each of
\* the four recognized series per country, numbers in all their cells, and
\* year columns of different years.
CompleteFile(f) ==
    LET ycols == year_columns(f)
    IN /\ f.rows # <<>> /\ ycols # <<>>
       /\ \A j \in 1..Len(f.rows) : f.rows[j].name # "" /\ f.rows[j].code # ""
       /\ \A j, k \in 1..Len(f.rows) :
            f.rows[j].name = f.rows[k].name => f.rows[j].code = f.rows[k].code
       /\ \A n \in FileCountries(f) : \A s \in DOMAIN indicator_mapping :
            Cardinality({j \in 1..Len(f.rows) :
                f.rows[j].name = n /\ f.rows[j].series = s}) = 1
       /\ \A j \in 1..Len(f.rows) : \A k \in 1..Len(ycols) :
            f.rows[j].series \in DOMAIN indicator_mapping =>
                LET cell == f.rows[j].cells[ycols[k].at]
                IN cell # "" /\ AllDigits(cell)
       /\ \A k \in 1..Len(ycols) : ycols[k].year # ""
       /\ \A k, l \in 1..Len(ycols) : ycols[k].year = ycols[l].year => k = l

\* The text of the cell of country n, series s and the year column k of f.
SourceCell(f, n, s, k) ==
    LET j == CHOOSE j \in 1..Len(f.rows) : f.rows[j].name = n /\ f.rows[j].series = s
    IN f.rows[j].cells[year_columns(f)[k].at]

\* C2: a complete file of C countries and Y year columns is reshaped into
\* exactly C*Y records, one per (country, year), and each indicator of a
\* record is the number of the cell of that country, series and year column.
C2_ReshapeRoundTrip ==
    CompleteFile(csv) =>
        /\ pc # "failed"
        /\ pc = "done" =>
            LET ycols == year_columns(csv)
                years == FileYears(csv)
            IN /\ Len(result.rows) = Cardinality(FileCountries(csv)) * Len(ycols)
               /\ \A n \in FileCountries(csv) : \A k \in 1..Len(ycols) :
                    LET hits == {i \in Rows(result) :
                                    /\ result.rows[i].country = n
                                    /\ result.rows[i].year = years[k]}
                    IN /\ Cardinality(hits) = 1
                       /\ \A i \in hits : \A s \in DOMAIN indicator_mapping :
                            LET v == result.rows[i][indicator_mapping[s]]
                            IN /\ ~IsNull(v)
                               /\ v[2] = 1
                               /\ ToText(v[1]) = SourceCell(csv, n, s, k)

\* Two countries and three years give six records.
C2_Witness ==
    /\ pc = "done"
    /\ CompleteFile(csv)
    /\ Cardinality(FileCountries(csv)) = 2
    /\ Len(year_columns(csv)) = 3
    /\ Len(result.rows) = 6

NoRecognizedSeries(f) ==
    \A j \in 1..Len(f.rows) : f.rows[j].series \notin DOMAIN indicator_mapping

\* C3: on a file with none of the four recognized series codes
\* load_and_transform_data never returns a table: no stage holds a record,
\* and the stages after the pivot work on a table without indicator columns,
\* on which handle_missing_data and the final dropna raise.
C3_NoSeriesFails ==
    NoRecognizedSeries(csv) =>
        /\ pc # "done"
        /\ result.rows = <<>>
        /\ df_long.rows = <<>> /\ df_pivoted.rows = <<>> /\ df_clean.rows = <<>>
        /\ pc = "missing" /\ handle_missing => HandleMissingRaises(df_clean, "forward_fill")
        /\ pc \in {"missing", "drop"} => DropRaises(df_clean)

\* A file of rows and year columns, none of a recognized series, has failed
\* after its (empty) pivot.
C3_Witness ==
    /\ NoRecognizedSeries(csv)
    /\ csv.rows # <<>>
    /\ \E j \in 1..Len(csv.rows) : csv.rows[j].series # "" /\ csv.rows[j].name # ""
    /\ pc = "failed"
    /\ err = "KeyError"
    /\ df_long.idcols = IdColumns
    /\ df_long.rows = <<>>

\* Are the four indicators of record r null?
FourNulls(r) ==
    /\ IsNull(r.gdp_pc_usd) /\ IsNull(r.life_expectancy_years)
    /\ IsNull(r.population_total) /\ IsNull(r.ann_income_pc_growth_pct)

\* C10: the rows of the reshape are all there after standardization and
\* missing-data handling; the returned table is the cleaned table without
\* its rows of four null indicators: every cleaned (country, year) with a
\* non-null indicator is returned, and no returned record is all null.
C10_OnlyAllNullDropped ==
    pc = "done" =>
        /\ {df_clean.rows[i].id : i \in Rows(df_clean)} =
               {df_pivoted.rows[i].id : i \in Rows(df_pivoted)}
        /\ Len(df_clean.rows) = Len(df_pivoted.rows)
        /\ \A i \in Rows(result) : ~FourNulls(result.rows[i])
        /\ \A i \in Rows(df_clean) :
              ~FourNulls(df_clean.rows[i]) =>
                  \E j \in Rows(result) :
                      [result.rows[j] EXCEPT !.id = 0] = [df_clean.rows[i] EXCEPT !.id = 0]
        /\ \A j \in Rows(result) :
              \E i \in Rows(df_clean) :
                  [result.rows[j] EXCEPT !.id = 0] = [df_clean.rows[i] EXCEPT !.id = 0]
        /\ Len(result.rows) =
               Cardinality({i \in Rows(df_clean) : ~FourNulls(df_clean.rows[i])})

\* A run that dropped an all-null row and returned a row with a gap.
C10_Witness ==
    /\ pc = "done"
    /\ handle_missing
    /\ \E i \in Rows(df_clean) : FourNulls(df_clean.rows[i])
    /\ \E j \in Rows(result) : \E c \in AllColumns : IsNull(result.rows[j][c])
    /\ \E j \in Rows(result) : \A c \in AllColumns : ~IsNull(result.rows[j][c])

(***************************************************************************)
(* Properties of standardize_country_codes (specification SpecStd).        *)
(***************************************************************************)
Recognized(code) ==
    code.k = "str" /\ Len(code.s) = 3 /\ \E c \in countries : c.alpha_3 = code.s

ExactMatches(name) == {c \in countries : c.name = name}

\* The precedence (a) to (d) of the resolution of one record; lastly is what
\* a record that nothing resolved ends with.
ResolvedBy(name, code, out, lastly) ==
    IF name \in {"European Union", "Korea, Rep."}
    THEN out = Str(IF name = "European Union" THEN "EUU" ELSE "KOR")
    ELSE IF Recognized(code) THEN out = code
    ELSE IF ExactMatches(name) # {} THEN \E c \in ExactMatches(name) : out = Str(c.alpha_3)
    ELSE IF search_fuzzy(name) # <<>> THEN out = Str(search_fuzzy(name)[1].alpha_3)
    ELSE out = lastly

C5_NeverRaises ==
    /\ pc # "std_failed"
    /\ pc = "std_done" =>
        /\ Len(std_out.rows) = Len(std_in.rows)
        /\ \A i \in Rows(std_in) :
              [std_out.rows[i] EXCEPT !.iso_code = PyNone] =
                  [std_in.rows[i] EXCEPT !.iso_code = PyNone]

(***************************************************************************)
(* Properties of handle_missing_data (specification SpecMissing).          *)
(***************************************************************************)
\* The row of table t with index label id.
RowOf(t, id) == t.rows[CHOOSE i \in Rows(t) : t.rows[i].id = id]

OfCountry(t, c) == [t EXCEPT !.rows = SelectSeq(t.rows, LAMBDA r : r.country = c)]

RatLeq(a, b) == a[1] * b[2] <= b[1] * a[2]

\* Was the cell of column col of output row r null in the input?
Written(r, col) == IsNull(RowOf(hm_in, r.id)[col]) /\ ~IsNull(r[col])

\* C6: under every strategy and input order, what handle_missing_data does to
\* the records of a country depends on the records of that country alone: the
\* records of a country in its output are its output on those records only,
\* and a value written into a null cell lies between two values the same
\* country has in the same column.
C6_FillWithinCountry ==
    pc = "hm_once" =>
        /\ \A c \in HmCountries :
              OfCountry(hm_out, c).rows = handle_missing_data(OfCountry(hm_in, c), strategy).rows
        /\ \A i \in Rows(hm_out) : \A col \in AllColumns :
              Written(hm_out.rows[i], col) =>
                  \E a, b \in Rows(hm_in) :
                      /\ hm_in.rows[a].country = hm_out.rows[i].country
                      /\ hm_in.rows[b].country = hm_out.rows[i].country
                      /\ ~IsNull(hm_in.rows[a][col]) /\ ~IsNull(hm_in.rows[b][col])
                      /\ RatLeq(hm_in.rows[a][col], hm_out.rows[i][col])
                      /\ RatLeq(hm_out.rows[i][col], hm_in.rows[b][col])

\* A gap of one country filled from the earlier year of that country, which
\* comes after it in the unsorted input, while the row before it is a row of
\* the other country with a value.
C6_Witness ==
    /\ pc = "hm_once"
    /\ Len(hm_in.rows) = 3
    /\ hm_in.rows[2].country # hm_in.rows[1].country
    /\ hm_in.rows[3].country = hm_in.rows[2].country
    /\ hm_in.rows[3].year < hm_in.rows[2].year
    /\ IsNull(hm_in.rows[2].gdp_pc_usd)
    /\ ~IsNull(hm_in.rows[1].gdp_pc_usd) /\ ~IsNull(hm_in.rows[3].gdp_pc_usd)
    /\ RowOf(hm_out, 1).gdp_pc_usd = hm_in.rows[3].gdp_pc_usd

\* C7: forward_fill applied to its own output returns that output.
C7_ForwardFillIdempotent ==
    pc = "hm_twice" /\ strategy = "forward_fill" => hm_twice = hm_out

\* A second application to a table the first one reordered and filled, by
\* ffill, by bfill and by interpolation, and left with a gap.
C7_Witness ==
    /\ pc = "hm_twice"
    /\ strategy = "forward_fill"
    /\ hm_out.rows # hm_in.rows
    /\ \E i \in Rows(hm_out) : Written(hm_out.rows[i], "gdp_pc_usd")
    /\ \E i \in Rows(hm_out) : Written(hm_out.rows[i], "population_total")
    /\ \E i \in Rows(hm_out) : IsNull(hm_out.rows[i].population_total)

\* The positions of hm_out before (after) position i whose row is of the same
\* country and had a number in column col of the input.
EarlierValues(i, col) ==
    {j \in 1..(i - 1) : /\ hm_out.rows[j].country = hm_out.rows[i].country
                        /\ ~IsNull(RowOf(hm_in, hm_out.rows[j].id)[col])}

LaterValues(i, col) ==
    {j \in (i + 1)..Len(hm_out.rows) : /\ hm_out.rows[j].country = hm_out.rows[i].country
                                       /\ ~IsNull(RowOf(hm_in, hm_out.rows[j].id)[col])}

\* C8: after forward_fill a country with a number in one of the columns
\* gdp_pc_usd, life_expectancy_years, ann_income_pc_growth_pct has no null in
\* it: the output is in (country, year) order, a gap holds the number of the
\* nearest earlier record of the country that had one, a leading gap that of
\* the nearest later one.
C8_ForwardFillLeavesNoGap ==
    pc = "hm_once" /\ strategy = "forward_fill" =>
        \A col \in Range(time_series_columns) :
            /\ \A i \in Rows(hm_out) :
                  (\E j \in Rows(hm_in) : /\ hm_in.rows[j].country = hm_out.rows[i].country
                                          /\ ~IsNull(hm_in.rows[j][col]))
                  => ~IsNull(hm_out.rows[i][col])
            /\ \A i \in Rows(hm_out) :
                  Written(hm_out.rows[i], col) =>
                      LET before == EarlierValues(i, col)
                          after == LaterValues(i, col)
                          src == IF before # {}
                                 THEN CHOOSE j \in before : \A k \in before : k <= j
                                 ELSE CHOOSE j \in after : \A k \in after : j <= k
                      IN hm_out.rows[i][col] = RowOf(hm_in, hm_out.rows[src].id)[col]
            /\ \A i \in 1..(Len(hm_out.rows) - 1) :
                  hm_out.rows[i].country = hm_out.rows[i + 1].country =>
                      hm_out.rows[i].year <= hm_out.rows[i + 1].year

\* A country of three years whose first year is back-filled and whose last
\* year is forward-filled, from the one year that had a number.
C8_Witness ==
    /\ pc = "hm_once"
    /\ strategy = "forward_fill"
    /\ Len(hm_out.rows) = 3
    /\ \A i \in 1..3 : hm_out.rows[i].country = "France" /\ hm_out.rows[i].year = 2014 + i
    /\ IsNull(RowOf(hm_in, hm_out.rows[1].id).gdp_pc_usd)
    /\ IsNull(RowOf(hm_in, hm_out.rows[3].id).gdp_pc_usd)
    /\ hm_out.rows[1].gdp_pc_usd = hm_out.rows[2].gdp_pc_usd
    /\ hm_out.rows[3].gdp_pc_usd = hm_out.rows[2].gdp_pc_usd
    /\ ~IsNull(hm_out.rows[2].gdp_pc_usd)

\* C9: handle_missing_data keeps the records (one output record per input
\* record, with its country, code and year) and every number they hold; under
\* leave_gaps every record keeps all its cells, the null ones too.
C9_OnlyNullCellsWritten ==
    pc = "hm_once" =>
        /\ Len(hm_out.rows) = Len(hm_in.rows)
        /\ {hm_out.rows[i].id : i \in Rows(hm_out)} = {hm_in.rows[i].id : i \in Rows(hm_in)}
        /\ \A i \in Rows(hm_out) :
              LET old == RowOf(hm_in, hm_out.rows[i].id)
                  new == hm_out.rows[i]
              IN /\ new.country = old.country /\ new.year = old.year
                 /\ new.iso_code = old.iso_code
                 /\ \A col \in AllColumns : ~IsNull(old[col]) => new[col] = old[col]
                 /\ strategy = "leave_gaps" => new = old

\* Witness of C9: leave_gaps hands a table with gaps back in (country, year)
\* order, which is not the order of the input, with its gaps.
C9_Witness ==
    /\ pc = "hm_once"
    /\ strategy = "leave_gaps"
    /\ hm_out.rows # hm_in.rows
    /\ \E i \in Rows(hm_out) : IsNull(hm_out.rows[i].gdp_pc_usd)
    /\ \E i \in Rows(hm_out) : ~IsNull(hm_out.rows[i].gdp_pc_usd)

(***************************************************************************)
(* Properties of validate_data (specification SpecValidate).               *)
(***************************************************************************)
\* C11: is_valid is true exactly when no check has status ERROR, that is
\* when no record has a negative population and no record has a life
\* expectancy under 20 or over 100; a WARNING never makes it false.
C11_ValidIffNoError ==
    pc = "vd_done" =>
        /\ vd_out.is_valid <=>
              \A k \in 1..Len(vd_out.report) : vd_out.report[k].status # "ERROR"
        /\ vd_out.is_valid <=>
              \A i \in Rows(vd_in) :
                  LET pop == vd_in.rows[i].population_total
                      life == vd_in.rows[i].life_expectancy_years
                  IN /\ IsNull(pop) \/ pop[1] >= 0
                     /\ IsNull(life) \/ (20 * life[2] <= life[1] /\ life[1] <= 100 * life[2])

\* Witness of C11: a table with a null iso_code and null cells, both
\* reported as WARNING, is valid.
C11_Witness ==
    /\ pc = "vd_done"
    /\ vd_out.is_valid
    /\ vd_out.report[1].status = "WARNING"
    /\ vd_out.report[4].status = "WARNING"
    /\ \E i \in Rows(vd_in) : IsNull(vd_in.rows[i].population_total)

\* The null cells of table t, as (row, column) pairs.
NullCells(t) ==
    {<<i, c>> \in Rows(t) \X Range(TableColumns) :
        IF c = "iso_code" THEN t.rows[i].iso_code \in {PyNone, NaNCode}
        ELSE c \notin {"country", "year"} /\ t.rows[i][c] = NaN}

\* C12: the report has exactly four checks, each with its count and a status
\* that depends on its own count only: null iso_codes (WARNING), negative
\* populations (ERROR), life expectancies under 20 or over 100 (ERROR), null
\* cells of the whole table (WARNING); PASS when the count is 0.
C12_FourIndependentChecks ==
    pc = "vd_done" =>
        LET report == vd_out.report
            counts ==
                <<Cardinality({i \in Rows(vd_in) : vd_in.rows[i].iso_code \in {PyNone, NaNCode}}),
                  Cardinality({i \in Rows(vd_in) :
                      LET pop == vd_in.rows[i].population_total
                      IN pop # NaN /\ pop[1] < 0}),
                  Cardinality({i \in Rows(vd_in) :
                      LET life == vd_in.rows[i].life_expectancy_years
                      IN life # NaN /\ (life[1] < 20 * life[2] \/ life[1] > 100 * life[2])}),
                  Cardinality(NullCells(vd_in))>>
            bad == <<"WARNING", "ERROR", "ERROR", "WARNING">>
        IN /\ Len(report) = 4
           /\ \A k \in 1..4 :
                 /\ report[k].count = counts[k]
                 /\ report[k].status = IF counts[k] = 0 THEN "PASS" ELSE bad[k]
           /\ Cardinality({report[k].check : k \in 1..4}) = 4

\* Witness of C12: a report with an ERROR next to a PASS and two WARNINGs,
\* whose last check counts more null cells than the table has records.
C12_Witness ==
    /\ pc = "vd_done"
    /\ vd_out.report[1].status = "WARNING"
    /\ vd_out.report[2].status = "ERROR"
    /\ vd_out.report[3].status = "PASS"
    /\ vd_out.report[4].status = "WARNING"
    /\ vd_out.report[4].count > Len(vd_in.rows)

(***************************************************************************)
(* Properties of features.py (specification SpecFeatures).                 *)
(***************************************************************************)
\* The records of the reference year in the table given to compute_ranks.
RefYearRows == {i \in Rows(ft_df) : ft_df.rows[i].year = ft_arg}

\* 1 + the number of records of the reference year whose value in column
\* col is strictly greater than that of record i.
MinRank(i, col) ==
    LET v == ft_df.rows[i][col]
    IN 1 + Cardinality({j \in RefYearRows :
               LET w == ft_df.rows[j][col]
               IN w # NaN /\ w[1] * v[2] > v[1] * w[2]})

\* The rank that a record of country must carry for column col: that of the
\* country's record of the reference year, null when it has none or when
\* that record has no value.
ExpectedRank(country, col) ==
    LET ref == {i \in RefYearRows : ft_df.rows[i].country = country}
    IN IF ref = {} THEN NaN
       ELSE LET i == CHOOSE i \in ref : TRUE
            IN IF ft_df.rows[i][col] = NaN THEN NaN ELSE <<MinRank(i, col), 1>>

\* C13: gdp_pc_rank of a country is 1 + the number of countries of the
\* reference year with a strictly greater gdp_pc_usd (ties share the least
\* rank and use up its slots), and population_rank likewise on
\* population_total.
C13_MinRankWithTies ==
    pc = "ranks_done" =>
        \A o \in Rows(ft_out) :
            /\ ft_out.rows[o].gdp_pc_rank =
                   ExpectedRank(ft_out.rows[o].country, "gdp_pc_usd")
            /\ ft_out.rows[o].population_rank =
                   ExpectedRank(ft_out.rows[o].country, "population_total")

\* Witness of C13: three countries in the reference year, two of them tied
\* for the greatest value: ranks 1, 1 and 3.
C13_Witness ==
    /\ pc = "ranks_done"
    /\ Len(ft_out.rows) = 3
    /\ \A o \in Rows(ft_out) : ft_out.rows[o].year = ft_arg
    /\ {<<ft_out.rows[o].country, ft_out.rows[o].gdp_pc_rank>> : o \in Rows(ft_out)} =
           {<<"France", Num(1)>>, <<"Russia", Num(1)>>, <<"World", Num(3)>>}
    /\ \A o \in Rows(ft_out) :
           ft_out.rows[o].population_rank = ft_out.rows[o].gdp_pc_rank

\* C14: compute_ranks keeps the records and their order, and every record of
\* a (country, iso_code), whatever its year, carries the same two ranks:
\* those of the country's record of the reference year.
C14_RankConstantPerCountry ==
    pc = "ranks_done" =>
        /\ Len(ft_out.rows) = Len(ft_df.rows)
        /\ \A o \in Rows(ft_out) :
              \A c \in Range(TableColumns) : ft_out.rows[o][c] = ft_df.rows[o][c]
        /\ \A a, b \in Rows(ft_out) :
              /\ ft_out.rows[a].country = ft_out.rows[b].country
              /\ ft_out.rows[a].iso_code = ft_out.rows[b].iso_code
              => /\ ft_out.rows[a].gdp_pc_rank = ft_out.rows[b].gdp_pc_rank
                 /\ ft_out.rows[a].population_rank = ft_out.rows[b].population_rank
        /\ \A a \in Rows(ft_out) : \A i \in RefYearRows :
              ft_df.rows[i].country = ft_out.rows[a].country
              => /\ ft_out.rows[a].gdp_pc_rank = ft_out.rows[i].gdp_pc_rank
                 /\ ft_out.rows[a].population_rank = ft_out.rows[i].population_rank

\* Witness of C14: a record of another year than the reference year carries
\* the rank 2 that its country has in the reference year.
C14_Witness ==
    /\ pc = "ranks_done"
    /\ \E a, b \in Rows(ft_out) :
          /\ ft_out.rows[a].country = ft_out.rows[b].country
          /\ ft_out.rows[a].year # ft_arg
          /\ ft_out.rows[b].year = ft_arg
          /\ ft_out.rows[a].gdp_pc_rank = Num(2)
          /\ ft_out.rows[b].gdp_pc_rank = Num(2)

\* The sum of column col over the records of ft_df at the positions S.
RECURSIVE SumAt(_, _)
SumAt(S, col) ==
    IF S = {} THEN <<0, 1>>
    ELSE LET i == CHOOSE i \in S : TRUE
             v == ft_df.rows[i][col]
             rest == SumAt(S \ {i}, col)
         IN Frac(v[1] * rest[2] + rest[1] * v[2], v[2] * rest[2])

\* The records of ft_df that the window of output record r covers: r and up
\* to window - 1 records of its country right before it in year order.
WindowOf(r, window) ==
    LET upto == {i \in Rows(ft_df) : /\ ft_df.rows[i].country = r.country
                                     /\ ft_df.rows[i].year <= r.year}
    IN {i \in upto :
           Cardinality({j \in upto : ft_df.rows[j].year > ft_df.rows[i].year}) < window}

\* Is the table t in (country, year) order?
InCountryYearOrder(t) ==
    \A i \in 1..(Len(t.rows) - 1) :
        \/ StrLess(t.rows[i].country, t.rows[i + 1].country)
        \/ /\ t.rows[i].country = t.rows[i + 1].country
           /\ t.rows[i].year <= t.rows[i + 1].year

\* C15: compute_rolling_averages returns the records in (country, year)
\* order, each with the mean of ann_income_pc_growth_pct over the record and
\* up to window - 1 records of the same country right before it (the values
\* that are not null; null when there is none): the raw value at the first
\* year of a country, and never a value of another country.
C15_RollingMeanPerCountry ==
    pc = "rolling_done" =>
        /\ InCountryYearOrder(ft_out)
        /\ Len(ft_out.rows) = Len(ft_df.rows)
        /\ \A o \in Rows(ft_out) :
              LET r == ft_out.rows[o]
                  seen == {i \in WindowOf(r, ft_arg) :
                              ft_df.rows[i].ann_income_pc_growth_pct # NaN}
                  total == SumAt(seen, "ann_income_pc_growth_pct")
                  rolling == r["ann_income_pc_growth_pct_rolling_" \o
                               (IF ft_arg = 2 THEN "2" ELSE "3") \o "yr"]
              IN /\ \A c \in Range(TableColumns) : r[c] = RowOf(ft_df, r.id)[c]
                 /\ rolling = IF seen = {} THEN NaN
                              ELSE Frac(total[1], total[2] * Cardinality(seen))

\* Witness of C15: three years of one country given in another order, with
\* window 3: the raw value at the first year, the mean of the first two at
\* the second, the mean of the three at the third.
C15_Witness ==
    /\ pc = "rolling_done"
    /\ ft_arg = 3
    /\ ft_df.rows[1].year = 2023
    /\ Len(ft_out.rows) = 3
    /\ \A o \in 1..3 : ft_out.rows[o].country = "France"
    /\ ft_out.rows[1].ann_income_pc_growth_pct = Num(4)
    /\ ft_out.rows[2].ann_income_pc_growth_pct = Num(1)
    /\ ft_out.rows[3].ann_income_pc_growth_pct = Num(0)
    /\ ft_out.rows[1].ann_income_pc_growth_pct_rolling_3yr = Num(4)
    /\ ft_out.rows[2].ann_income_pc_growth_pct_rolling_3yr = <<5, 2>>
    /\ ft_out.rows[3].ann_income_pc_growth_pct_rolling_3yr = <<5, 3>>

\* The record of ft_df right before output record r in its country, in year
\* order: its position, or 0 when r is of the first year of the country.
PriorOf(r) ==
    LET before == {i \in Rows(ft_df) : /\ ft_df.rows[i].country = r.country
                                       /\ ft_df.rows[i].year < r.year}
    IN IF before = {} THEN 0
       ELSE CHOOSE i \in before : \A j \in before : ft_df.rows[j].year <= ft_df.rows[i].year

YoyColumns ==
    <<<<"gdp_pc_usd", "gdp_pc_usd_yoy_pct">>,
      <<"life_expectancy_years", "life_expectancy_years_yoy_pct">>,
      <<"population_total", "population_total_yoy_pct">>>>

\* C16: calculate_year_over_year_changes returns the records in (country,
\* year) order; for each of the three metrics the record of the first year
\* of a country has a null YoY, whatever the record before it in the table,
\* and a later record whose value v and prior value p of the same country
\* are numbers, p not zero, has (v - p) / p * 100.
C16_YoyFromPriorYearOfCountry ==
    pc = "yoy_done" =>
        /\ InCountryYearOrder(ft_out)
        /\ Len(ft_out.rows) = Len(ft_df.rows)
        /\ \A o \in Rows(ft_out) : \A m \in Range(YoyColumns) :
              LET r == ft_out.rows[o]
                  prior == PriorOf(r)
                  v == r[m[1]]
                  p == ft_df.rows[prior][m[1]]
              IN /\ r[m[1]] = RowOf(ft_df, r.id)[m[1]]
                 /\ prior = 0 => r[m[2]] = NaN
                 /\ prior # 0 /\ v # NaN /\ p # NaN /\ p[1] # 0 =>
                       r[m[2]] = Frac((v[1] * p[2] - p[1] * v[2]) * 100, v[2] * p[1])

\* Witness of C16: the first record of a country follows a record of another
\* country with a value and has a null YoY; its next record has -50.
C16_Witness ==
    /\ pc = "yoy_done"
    /\ Len(ft_out.rows) = 3
    /\ ft_out.rows[1].country = "France" /\ ft_out.rows[1].gdp_pc_usd = Num(100)
    /\ ft_out.rows[2].country = "Russia" /\ ft_out.rows[2].gdp_pc_usd = Num(200)
    /\ ft_out.rows[3].country = "Russia" /\ ft_out.rows[3].gdp_pc_usd = Num(100)
    /\ ft_out.rows[2].gdp_pc_usd_yoy_pct = NaN
    /\ ft_out.rows[3].gdp_pc_usd_yoy_pct = Num(-50)
    /\ ft_out.rows[3].population_total_yoy_pct = <<-800, 9>>

\* C17 as claimed: when the value of the record before it in its country is
\* zero or null, the YoY of a record is null.
C17_ZeroOrNullPriorGivesNull ==
    pc = "yoy_done" =>
        \A o \in Rows(ft_out) : \A m \in Range(YoyColumns) :
            LET r == ft_out.rows[o]
                prior == PriorOf(r)
            IN prior # 0 /\ ft_df.rows[prior][m[1]] \in {NaN, Num(0)} => r[m[2]] = NaN

\* C18: create_latest_year_snapshot returns one row per country of its
\* input, the record of the country with the greatest year.
C18_OneLatestRowPerCountry ==
    pc = "snapshot_done" =>
        /\ {ft_out.rows[o].country : o \in Rows(ft_out)} =
               {ft_df.rows[i].country : i \in Rows(ft_df)}
        /\ \A a, b \in Rows(ft_out) :
              ft_out.rows[a].country = ft_out.rows[b].country => a = b
        /\ \A o \in Rows(ft_out) :
              \E i \in Rows(ft_df) :
                  /\ \A c \in Range(TableColumns) : ft_out.rows[o][c] = ft_df.rows[i][c]
                  /\ \A j \in Rows(ft_df) :
                        ft_df.rows[j].country = ft_df.rows[i].country
                        => ft_df.rows[j].year <= ft_df.rows[i].year

\* Witness of C18: of a country with two years and a country with one, given
\* latest year last, the snapshot has the two latest records.
C18_Witness ==
    /\ pc = "snapshot_done"
    /\ Len(ft_df.rows) = 3
    /\ ft_df.rows[1].country = "France" /\ ft_df.rows[1].year = 2021
    /\ ft_df.rows[2].country = "France" /\ ft_df.rows[2].year = 2022
    /\ ft_df.rows[3].country = "Russia"
    /\ Len(ft_out.rows) = 2
    /\ ft_out.rows[1].country = "France" /\ ft_out.rows[1].year = 2022
    /\ ft_out.rows[2].country = "Russia"

\* The records of year y of ft_df that have a value in column col and a
\* population.
Weighable(y, col) ==
    {i \in Rows(ft_df) : /\ ft_df.rows[i].year = y
                         /\ ft_df.rows[i][col] # NaN
                         /\ ft_df.rows[i].population_total # NaN}

\* The sum of value * population of column col over the records at S.
RECURSIVE WeightedSumAt(_, _)
WeightedSumAt(S, col) ==
    IF S = {} THEN <<0, 1>>
    ELSE LET i == CHOOSE i \in S : TRUE
             v == ft_df.rows[i][col]
             w == ft_df.rows[i].population_total
             rest == WeightedSumAt(S \ {i}, col)
         IN Frac(v[1] * w[1] * rest[2] + rest[1] * v[2] * w[2], v[2] * w[2] * rest[2])

WorldColumns ==
    <<<<"gdp_pc_usd", "world_gdp_pc_weighted">>,
      <<"life_expectancy_years", "world_life_expectancy_weighted">>,
      <<"ann_income_pc_growth_pct", "world_income_growth_weighted">>>>

\* C19 as claimed: compute_world_aggregates returns one row per year, whose
\* weighted columns are sum(value * population) / sum(population) over the
\* countries that have a value and a population in that year (a country
\* with a null is left out), and whose world_population_total is the sum of
\* the populations of the year.
C19_WeightedMeanOverNonNull ==
    pc = "aggregates_done" =>
        /\ Len(ft_out.rows) = Cardinality({ft_df.rows[i].year : i \in Rows(ft_df)})
        /\ \A o \in Rows(ft_out) :
              LET y == ft_out.rows[o].year
                  pops == {i \in Rows(ft_df) : /\ ft_df.rows[i].year = y
                                               /\ ft_df.rows[i].population_total # NaN}
              IN /\ \E i \in Rows(ft_df) : ft_df.rows[i].year = y
                 /\ \A p \in Rows(ft_out) : ft_out.rows[p].year = y => p = o
                 /\ ft_out.rows[o].world_population_total = SumAt(pops, "population_total")
                 /\ \A m \in Range(WorldColumns) :
                       LET S == Weighable(y, m[1])
                           num == WeightedSumAt(S, m[1])
                           den == SumAt(S, "population_total")
                       IN S # {} /\ den[1] # 0 =>
                             ft_out.rows[o][m[2]] = Frac(num[1] * den[2], num[2] * den[1])

\* C20 as claimed: compute_world_aggregates and engineer_features do not
\* raise, also when the population of a year sums to zero.
C20_ZeroPopulationDoesNotRaise ==
    pc \notin {"aggregates_failed", "features_failed"}

\* The columns the three feature steps add.
FeatureColumns ==
    {"gdp_pc_rank", "population_rank", "ann_income_pc_growth_pct_rolling_3yr",
     "gdp_pc_usd_yoy_pct", "life_expectancy_years_yoy_pct", "population_total_yoy_pct"}

\* C21: when engineer_features returns, it returns exactly main_data,
\* latest_snapshot and world_aggregates; main_data is the YoY step applied
\* to the rolling step applied to the rank step of the input, it has one row
\* per input record with the rank, rolling and YoY columns, and the snapshot
\* and the aggregates are built from main_data, so that the snapshot rows
\* carry the columns too.
C21_RanksRollingYoyThenSnapshot ==
    pc = "features_done" =>
        /\ DOMAIN ft_out = {"main_data", "latest_snapshot", "world_aggregates"}
        /\ LET main == ft_out.main_data
               snap == ft_out.latest_snapshot
           IN /\ main = calculate_year_over_year_changes(
                            compute_rolling_averages(
                                compute_ranks(ft_df, default_reference_year),
                                default_window),
                            ft_arg)
              /\ snap = create_latest_year_snapshot(main)
              /\ ft_out.world_aggregates = compute_world_aggregates(main)
              /\ Len(main.rows) = Len(ft_df.rows)
              /\ \A i \in Rows(ft_df) :
                    \E o \in Rows(main) :
                        \A c \in Range(TableColumns) : main.rows[o][c] = ft_df.rows[i][c]
              /\ FeatureColumns \subseteq main.columns
              /\ FeatureColumns \subseteq snap.columns
              /\ \A o \in Rows(main) : FeatureColumns \subseteq DOMAIN main.rows[o]
              /\ \A o \in Rows(snap) : FeatureColumns \subseteq DOMAIN snap.rows[o]

\* Witness of C21: of two years of France and one of Russia, main_data has
\* three rows and the snapshot the two of 2023, with a rank and a YoY.
C21_Witness ==
    /\ pc = "features_done"
    /\ Len(ft_df.rows) = 3
    /\ Len(ft_out.main_data.rows) = 3
    /\ Len(ft_out.latest_snapshot.rows) = 2
    /\ Len(ft_out.world_aggregates.rows) = 2
    /\ ft_out.latest_snapshot.rows[1].country = "France"
    /\ ft_out.latest_snapshot.rows[1].year = 2023
    /\ ft_out.latest_snapshot.rows[1].gdp_pc_rank = Num(2)
    /\ ft_out.latest_snapshot.rows[1].gdp_pc_usd_yoy_pct = Num(-50)
    /\ ft_out.latest_snapshot.rows[2].country = "Russia"
    /\ ft_out.latest_snapshot.rows[2].gdp_pc_rank = Num(1)

\* C29: on a table with at most one record per (country, year),
\* compute_ranks returns one row per input record, in the order of the
\* input; a record of a country without a record of the reference year has
\* null ranks, a record of a country whose value of the reference year is
\* null has a null rank for that value, and so every rank is null when no
\* record is of the reference year.
C29_RankJoinKeepsRowsNullWithoutReference ==
    pc = "ranks_done" =>
        /\ \A a, b \in Rows(ft_df) :
              /\ ft_df.rows[a].country = ft_df.rows[b].country
              /\ ft_df.rows[a].year = ft_df.rows[b].year
              => a = b
        /\ DOMAIN ft_out.rows = DOMAIN ft_df.rows
        /\ \A o \in Rows(ft_out) :
              LET r == ft_out.rows[o]
                  ref == {i \in RefYearRows : ft_df.rows[i].country = r.country}
              IN /\ r.id = ft_df.rows[o].id
                 /\ r.country = ft_df.rows[o].country
                 /\ r.year = ft_df.rows[o].year
                 /\ ref = {} => r.gdp_pc_rank = NaN /\ r.population_rank = NaN
                 /\ \A i \in ref :
                       /\ ft_df.rows[i].gdp_pc_usd = NaN => r.gdp_pc_rank = NaN
                       /\ ft_df.rows[i].population_total = NaN => r.population_rank = NaN

\* Witness of C29: of three records none is of the reference year, and the
\* three rows returned have null ranks.
C29_Witness ==
    /\ pc = "ranks_done"
    /\ ft_arg = 2023
    /\ Len(ft_df.rows) = 3
    /\ \A i \in Rows(ft_df) : ft_df.rows[i].year # 2023 /\ ft_df.rows[i].gdp_pc_usd # NaN
    /\ Len(ft_out.rows) = 3
    /\ \A o \in Rows(ft_out) :
          ft_out.rows[o].gdp_pc_rank = NaN /\ ft_out.rows[o].population_rank = NaN

(***************************************************************************)
(* Properties of forecast.py (specification SpecForecast).                 *)
(***************************************************************************)
\* The records of fc_main of the country asked for, and those of them with a
\* value of the indicator asked for.
CountryRows == {i \in Rows(fc_main) : fc_main.rows[i].country = fc_call.country}

NonNullRows == {i \in CountryRows : fc_main.rows[i][fc_call.indicator] # NaN}

\* C22: prepare_forecast_data returns None exactly when the country has no
\* rows or fewer than min_data_points rows with a value of the indicator;
\* otherwise it returns every (year, value) of the country with a value, and
\* nothing else, in ascending order of year.
C22_NoneIffTooFewPoints ==
    pc \in {"insufficient", "prepared"} =>
        /\ fc_ts.none <=>
              \/ CountryRows = {}
              \/ Cardinality(NonNullRows) < fc_call.min_data_points
        /\ ~fc_ts.none =>
              /\ Len(fc_ts.rows) = Cardinality(NonNullRows)
              /\ \A i \in NonNullRows :
                    \E k \in 1..Len(fc_ts.rows) :
                        fc_ts.rows[k] = [year |-> fc_main.rows[i].year,
                                         value |-> fc_main.rows[i][fc_call.indicator]]
              /\ \A k, l \in 1..Len(fc_ts.rows) :
                    k < l => fc_ts.rows[k].year <= fc_ts.rows[l].year

\* Witness of C22: three points of a country given latest year first, with
\* min_data_points 3, are returned in ascending order of year.
C22_Witness ==
    /\ pc = "prepared"
    /\ fc_call.min_data_points = 3
    /\ Len(fc_main.rows) = 3
    /\ fc_main.rows[1].year = 2023 /\ fc_main.rows[3].year = 2021
    /\ Len(fc_ts.rows) = 3
    /\ fc_ts.rows[1].year = 2021 /\ fc_ts.rows[3].year = 2023

\* C23: on a series of n points with last year Y and a horizon h, a forecast
\* function returns n + h rows: the n points of the series as Historical
\* rows, in order, then h Forecast rows of the years Y + 1, ..., Y + h.
C23_HistoricalThenContiguousForecast ==
    pc \in {"linear_done", "smoothing_done", "smoothing_fell_back"} =>
        LET n == Len(fc_ts.rows)
            h == fc_call.forecast_years
            Y == fc_ts.rows[n].year
        IN /\ n >= 1 /\ h >= 1
           /\ \A k \in 1..n : fc_ts.rows[k].year <= Y
           /\ Len(fc_out) = n + h
           /\ \A k \in 1..n :
                 fc_out[k] = [year |-> fc_ts.rows[k].year, value |-> fc_ts.rows[k].value,
                              type |-> "Historical"]
           /\ \A k \in 1..h :
                 fc_out[n + k].year = Y + k /\ fc_out[n + k].type = "Forecast"

\* Witness of C23: the linear forecast of 100, 100, 250 in 2021-2023 with
\* horizon 3 has six rows, the fourth being 300 in 2024.
C23_Witness ==
    /\ pc = "linear_done"
    /\ fc_call.forecast_years = 3
    /\ Len(fc_ts.rows) = 3
    /\ Len(fc_out) = 6
    /\ fc_out[1] = [year |-> 2021, value |-> Num(100), type |-> "Historical"]
    /\ fc_out[3] = [year |-> 2023, value |-> Num(250), type |-> "Historical"]
    /\ fc_out[4] = [year |-> 2024, value |-> Num(300), type |-> "Forecast"]
    /\ fc_out[6].year = 2026

\* The (year, type) of the rows of a forecast result.
YearsAndKinds(out) == AsSeq([k \in 1..Len(out) |-> <<out[k].year, out[k].type>>])

\* C24: when the fit or the forecast of the smoothing raises,
\* exponential_smoothing_forecast raises nothing and returns what
\* linear_regression_forecast returns on the same series and horizon, which
\* has the years and kinds of the result of a fit that succeeds.
C24_FallbackIsLinearRegression ==
    pc = "smoothing_fell_back" =>
        /\ err = "none"
        /\ fc_out = linear_regression_forecast(fc_ts, fc_call.forecast_years)
        /\ \A fit \in Fits \ {"raises"} :
              YearsAndKinds(fc_out) =
                  YearsAndKinds(exponential_smoothing_forecast(
                                    fc_ts, fc_call.forecast_years, fit))

\* Witness of C24: the fit of a series of one point raises, and the result
\* is the line through the point: 250 in 2022, then 250 in 2023.
C24_Witness ==
    /\ pc = "smoothing_fell_back"
    /\ fc_call.forecast_years = 1
    /\ fc_ts.rows = <<[year |-> 2022, value |-> Num(250)]>>
    /\ fc_out = <<[year |-> 2022, value |-> Num(250), type |-> "Historical"],
                  [year |-> 2023, value |-> Num(250), type |-> "Forecast"]>>

(***************************************************************************)
(* Properties of the cached load (specification SpecApp).  A step that     *)
(* leaves the files alone and ends with an entry in the cache is a run of  *)
(* main.                                                                   *)
(***************************************************************************)
AllReadable == \A f \in FileNames : ~ReadRaises(files[f])

\* C25: what load_all_data returns is the empty bundle or a bundle of all
\* three tables, and nothing is raised; a run of its body with a file
\* absent or unreadable returns the empty bundle, and a run with the three
\* files readable returns their three contents.
C25_AllThreeOrEmpty ==
    [][/\ err' = "none"
       /\ data' = <<>> \/ DOMAIN data' = FileNames
       /\ cache = <<>> /\ cache' # <<>> /\ files' = files =>
             /\ body_ran'
             /\ data' = cache'[1]
             /\ IF AllReadable THEN data' = files ELSE data' = <<>>]_vars

\* Witness of C25: with main_data and latest_snapshot readable and
\* world_aggregates absent, the body ran and main got the empty bundle.
C25_Witness ==
    /\ shown = "load_error"
    /\ body_ran
    /\ data = <<>>
    /\ files = [main_data |-> "v1", latest_snapshot |-> "v1", world_aggregates |-> "absent"]

\* C26: once a bundle of three tables is in the cache, a run of main gets
\* that bundle without a run of the body of load_all_data, whatever the
\* files hold by then, and the cache keeps it until it is cleared or the
\* server restarted; the run after that executes the body.
C26_LoadedOnceUntilCleared ==
    [][/\ cache # <<>> /\ cache[1] # <<>> /\ cache' # <<>> /\ files' = files =>
             /\ ~body_ran'
             /\ cache' = cache
             /\ data' = cache[1]
             /\ shown' \in Pages
       /\ cache # <<>> /\ cache[1] # <<>> /\ files' # files => cache' = cache
       /\ cache = <<>> /\ cache' # <<>> => body_ran']_vars

\* Witness of C26: main got the cached tables of contents v1 after
\* main_data was rewritten with contents v2.
C26_Witness ==
    /\ shown \in Pages
    /\ ~body_ran
    /\ cache # <<>>
    /\ data = [f \in FileNames |-> "v1"]
    /\ files = [main_data |-> "v2", latest_snapshot |-> "v1", world_aggregates |-> "v1"]

\* C30 as claimed: a run of main with the three files readable renders the
\* selected page, also after a run that rendered the load failure.
C30_LoadFailureNotSticky ==
    [][shown = "load_error" /\ AllReadable /\ files' = files /\ cache' # <<>>
           => shown' \in Pages]_vars

(***************************************************************************)
(* Properties of filter_data (specification SpecFilter).                   *)
(***************************************************************************)
\* Is record r inside the selection of fd_call?  No country restriction for
\* an empty list of countries, no year restriction for an empty list of
\* years.
Selected(r) ==
    /\ \/ fd_call.countries = <<>>
       \/ \E k \in 1..Len(fd_call.countries) : fd_call.countries[k] = r.country
    /\ \/ fd_call.years = <<>>
       \/ \E a, b \in 1..Len(fd_call.years) :
             fd_call.years[a] <= r.year /\ r.year <= fd_call.years[b]

\* C28: filter_data returns exactly the records of df of a selected country
\* with a year between the least and the greatest of years, both included,
\* in their order and with their columns; an empty list of countries or of
\* years restricts nothing; filtering what it returned changes nothing.
C28_FilterByCountriesAndYearRange ==
    pc = "filtered" =>
        /\ fd_out.columns = fd_df.columns
        /\ fd_out.rows = SelectSeq(fd_df.rows, Selected)
        /\ fd_twice = fd_out

\* Witness of C28: with no country selected and the years (2023, 2022), the
\* records of 2022 and 2023 of both countries are returned, that of 2021 is
\* not.
C28_Witness ==
    /\ pc = "filtered"
    /\ fd_call = [countries |-> <<>>, years |-> <<2023, 2022>>]
    /\ Len(fd_df.rows) = 3
    /\ fd_df.rows[1].country = "France" /\ fd_df.rows[1].year = 2021
    /\ Len(fd_out.rows) = 2
    /\ fd_out.rows[1].country = "France" /\ fd_out.rows[1].year = 2022
    /\ fd_out.rows[2].country = "Russia" /\ fd_out.rows[2].year = 2023

(***************************************************************************)
(* Properties of the caller's table (specification SpecCore).              *)
(***************************************************************************)
\* C27: whatever functions of the core a table is passed to, one call after
\* the other, no column of it is assigned in place and the table stays as it
\* was.
C27_InputTableNeverMutated ==
    [][core_writes' = {} /\ core_df' = core_df]_vars

\* Witness of C27: a table of three records after a call of compute_ranks,
\* which assigns two columns of a copy.
C27_Witness ==
    /\ core_fn = "compute_ranks"
    /\ Len(core_df.rows) = 3
    /\ core_df.columns = AllColumns
    /\ core_writes = {}

=============================================================================
